---- MODULE Spec2Model ----
(***************************************************************************)
(* hackview: session log watcher and incremental event reconciliation.     *)
(*                                                                         *)
(* The model follows src/src/watcher.js (SessionWatcher) and the parser    *)
(* that is appended to src/src/app.js (parseRecord, extractEvent).         *)
(*                                                                         *)
(* JavaScript values are represented as follows.                           *)
(*   - strings are TLA+ strings; a string-typed slot that holds null or    *)
(*     undefined holds JsNull or JsUndefined;                              *)
(*   - objects are records; a missing property is a missing field;         *)
(*     a null object is NullObj;                                           *)
(*   - a value whose type the code tests (typeof, Array.isArray) is a       *)
(*     tagged record [t |-> "string" or "array", v |-> the value];         *)
(*   - a file is a sequence of bytes; a byte is a record: a newline, a     *)
(*     blank, or one of the SerLen pieces of a serialised JSON record.     *)
(***************************************************************************)
EXTENDS Integers, Sequences, FiniteSets, TLC

VARIABLES
    dirs,        \* HackviewApp.dirs: the configured list of directories
    numSessions, \* HackviewApp.numSessions: the configured number of slots
    watchers,    \* HackviewApp.watchers: one SessionWatcher object per slot
    files,       \* the file system: path -> [mtime, content]
    now,         \* the file system clock (source of modification times)
    emitted,     \* per slot: notifications emitted by the handler that ran last
    feeds,       \* per slot: one entry per _processLine call since the last file switch,
                 \* with the record parsed, the events extracted and the iterations run
    lastOp,      \* the handler or file system operation that ran last
    closed       \* per slot: the runtime handles stop() has released

vars == <<dirs, numSessions, watchers, files, now, emitted, feeds, lastOp, closed>>

----------------------------------------------------------------------------
(* Bounds of the model *)

MaxClock == 4      \* the external writer performs at most this many file system operations
MaxLines == 3      \* a file holds at most this many lines
MaxSeed == 52      \* a session log found at startup holds at most this many lines

----------------------------------------------------------------------------
(* JavaScript values *)

JsNull == "<null>"
JsUndefined == "<undefined>"
NullObj == [jsnull |-> TRUE]
NoPath == JsNull

\* truthiness of a string-typed slot
Truthy(s) == s \notin {JsNull, JsUndefined, ""}

\* x || d  for string-typed slots
OrElse(s, d) == IF Truthy(s) THEN s ELSE d

Has(r, f) == f \in DOMAIN r

\* r.f where a missing property reads as undefined
Get(r, f) == IF f \in DOMAIN r THEN r[f] ELSE JsUndefined

\* { ...r, ...s }
Spread(r, s) == [k \in DOMAIN r \cup DOMAIN s |-> IF k \in DOMAIN s THEN s[k] ELSE r[k]]

\* s.slice(0, n)
Slice(s, n) == IF Len(s) <= n THEN s ELSE SubSeq(s, 1, n)

Min(a, b) == IF a <= b THEN a ELSE b

----------------------------------------------------------------------------
(* Files as byte sequences *)

NL == [nl |-> TRUE]
Blank == [sp |-> TRUE]
SerLen == 2

\* JSON.stringify(r): the bytes of one record
Ser(r) == [i \in 1..SerLen |-> [rec |-> r, piece |-> i]]

IsSpace(b) == b = Blank \/ b = NL

RECURSIVE TrimLeft(_)
TrimLeft(l) == IF l # <<>> /\ IsSpace(Head(l)) THEN TrimLeft(Tail(l)) ELSE l

RECURSIVE TrimRight(_)
TrimRight(l) ==
    IF l # <<>> /\ IsSpace(l[Len(l)]) THEN TrimRight(SubSeq(l, 1, Len(l) - 1)) ELSE l

\* String.prototype.trim
Trim(l) == TrimRight(TrimLeft(l))

\* the position of the k-th newline among the newline positions nls of a
\* buffer of len bytes; 0 before the first and len + 1 after the last
Boundary(nls, len, k) ==
    IF k = 0 THEN 0
    ELSE IF k > Cardinality(nls) THEN len + 1
    ELSE CHOOSE i \in nls : Cardinality({j \in nls : j <= i}) = k

\* the pieces between the newline positions nls of bytes
Pieces(bytes, nls) ==
    [k \in 1..(Cardinality(nls) + 1) |->
        SubSeq(bytes, Boundary(nls, Len(bytes), k - 1) + 1,
               Boundary(nls, Len(bytes), k) - 1)]

\* content.split('\n')
SplitNL(bytes) == Pieces(bytes, {i \in 1..Len(bytes) : bytes[i] = NL})

\* content.split('\n').filter(l => l.trim())
NonBlankLines(bytes) == SelectSeq(SplitNL(bytes), LAMBDA l : Trim(l) # <<>>)

----------------------------------------------------------------------------
(* Record Parser and Event Extractor (the parser module) *)

\* JSON.parse(line.trim()) succeeds exactly on the complete serialisation of a record
IsJson(t) ==
    /\ Len(t) = SerLen
    /\ \A i \in 1..SerLen : Has(t[i], "rec") /\ t[i].piece = i /\ t[i].rec = t[1].rec

\* the value JSON.parse returns for the trimmed line t, or null when it throws
ParseTrimmed(t) == IF IsJson(t) THEN t[1].rec ELSE NullObj

\* variant: the line is parsed without trimming it
parseRecord_NoTrim(line) == ParseTrimmed(line)

\* parseRecord(line)
parseRecord(line) == ParseTrimmed(Trim(line))

\* summarizeInput(input); an input object is the sequence of its <<key, value>> pairs
PriorityKeys == <<"command", "path", "file_path", "url", "query", "pattern", "description">>

InputHas(input, key) == \E i \in 1..Len(input) : input[i][1] = key

InputGet(input, key) == input[CHOOSE i \in 1..Len(input) : input[i][1] = key][2]

summarizeInput(input) ==
    IF input = <<>> THEN ""
    ELSE IF \E j \in 1..Len(PriorityKeys) : InputHas(input, PriorityKeys[j])
         THEN LET j == CHOOSE k \in 1..Len(PriorityKeys) :
                           /\ InputHas(input, PriorityKeys[k])
                           /\ \A m \in 1..(k - 1) : ~InputHas(input, PriorityKeys[m])
              IN  Slice(InputGet(input, PriorityKeys[j]), 50)
         ELSE input[1][1] \o "=" \o Slice(input[1][2], 40)

\* the position of the first element of a structured tool result that find()
\* accepts, or one past the end; a null element before it makes b.type raise
FirstText(items) ==
    IF \E k \in 1..Len(items) : items[k] # NullObj /\ Get(items[k], "type") = "text"
    THEN CHOOSE k \in 1..Len(items) :
            /\ items[k] # NullObj /\ Get(items[k], "type") = "text"
            /\ \A m \in 1..(k - 1) : items[m] = NullObj \/ Get(items[m], "type") # "text"
    ELSE Len(items) + 1

\* the summary of one block of a structured user message body
UserBlockPart(block) ==
    IF block.type = "text" THEN <<IF Truthy(Get(block, "text")) THEN Slice(block.text, 200) ELSE "">>
    ELSE IF block.type = "tool_result"
         THEN IF Has(block, "content") /\ block.content.t = "string"
              THEN <<"[result: " \o Slice(block.content.v, 60) \o "]">>
              ELSE IF Has(block, "content") /\ block.content.t = "array"
                      /\ FirstText(block.content.v) <= Len(block.content.v)
              THEN <<"[result: "
                     \o Slice(block.content.v[FirstText(block.content.v)].text, 60) \o "]">>
              ELSE <<"[tool result]">>
    ELSE IF block.type = "image" THEN <<"[image]">>
    ELSE <<>>

RECURSIVE UserParts(_)
UserParts(blocks) ==
    IF blocks = <<>> THEN <<>> ELSE UserBlockPart(Head(blocks)) \o UserParts(Tail(blocks))

\* parts.join(' ')
RECURSIVE JoinSpace(_)
JoinSpace(parts) ==
    IF parts = <<>> THEN ""
    ELSE IF Len(parts) = 1 THEN parts[1]
    ELSE parts[1] \o " " \o JoinSpace(Tail(parts))

\* extractUserContent(content): a string, or JsNull
extractUserContent(content) ==
    IF content.t = "string"
    THEN IF Truthy(content.v) THEN Slice(content.v, 200) ELSE JsNull
    ELSE IF content.t = "array"
    THEN OrElse(Slice(JoinSpace(UserParts(content.v)), 300), JsNull)
    ELSE JsNull

\* msg.stop_reason !== null  (a missing stop_reason is undefined, which is not null)
StopReasonNotNull(msg) == Get(msg, "stop_reason") # JsNull

\* msg.usage || null
UsageOf(msg) == IF Has(msg, "usage") THEN msg.usage ELSE NullObj

\* the event pushed for one content block of an assistant message
AssistantBlockEvent(msg, block) ==
    IF block.type = "thinking"
    THEN <<[type |-> "thinking",
            content |-> IF Truthy(Get(block, "thinking"))
                        THEN Slice(block.thinking, 80) \o "..." ELSE "thinking...",
            messageId |-> Get(msg, "id"),
            isComplete |-> StopReasonNotNull(msg),
            usage |-> UsageOf(msg)]>>
    ELSE IF block.type = "text"
    THEN <<[type |-> "text",
            content |-> OrElse(Get(block, "text"), ""),
            messageId |-> Get(msg, "id"),
            isComplete |-> StopReasonNotNull(msg),
            usage |-> UsageOf(msg)]>>
    ELSE IF block.type = "tool_use"
    THEN <<[type |-> "tool_use",
            content |-> block.name \o "("
                        \o (IF Has(block, "input") THEN summarizeInput(block.input) ELSE "")
                        \o ")",
            toolName |-> block.name,
            messageId |-> Get(msg, "id"),
            isComplete |-> StopReasonNotNull(msg),
            usage |-> UsageOf(msg)]>>
    ELSE <<>>

RECURSIVE AssistantEvents(_, _)
AssistantEvents(msg, blocks) ==
    IF blocks = <<>> THEN <<>>
    ELSE AssistantBlockEvent(msg, Head(blocks)) \o AssistantEvents(msg, Tail(blocks))

\* variant: only the first content block is read
ContentBlocks_FirstOnly(msg) ==
    IF Has(msg, "content") /\ msg.content.t = "array"
    THEN SubSeq(msg.content.v, 1, Min(1, Len(msg.content.v))) ELSE <<>>

\* the content blocks the loop of case 'assistant' iterates: msg.content || []
ContentBlocks(msg) ==
    IF Has(msg, "content") /\ msg.content.t = "array" THEN msg.content.v ELSE <<>>

\* the result of case 'assistant' once the loop has pushed events
AssistantResult(msg, events) ==
    IF events = <<>> /\ StopReasonNotNull(msg)
    THEN <<[type |-> "complete",
            content |-> "[" \o (IF Has(msg, "stop_reason")
                                 THEN msg.stop_reason ELSE "undefined") \o "]",
            messageId |-> Get(msg, "id"),
            isComplete |-> TRUE, usage |-> UsageOf(msg)]>>
    ELSE events

\* variant: a user message without content yields an event with empty content
UserResult_AlwaysEvent(msg, content) ==
    <<[type |-> "user", content |-> OrElse(content, ""),
       messageId |-> OrElse(Get(msg, "id"), JsNull),
       isComplete |-> TRUE, usage |-> NullObj]>>

\* the result of case 'user' once the content has been extracted
UserResult(msg, content) ==
    IF ~Truthy(content) THEN <<>>
    ELSE <<[type |-> "user", content |-> content,
            messageId |-> OrElse(Get(msg, "id"), JsNull),
            isComplete |-> TRUE, usage |-> NullObj]>>

\* one iteration of the loop of extractUserContent raises TypeError: block is
\* null, or resultContent.find meets a null element, or text.text is undefined
UserBlockThrows(block) ==
    \/ block = NullObj
    \/ /\ Get(block, "type") = "tool_result"
       /\ Has(block, "content") /\ block.content.t = "array"
       /\ \/ \E m \in 1..Len(block.content.v) :
                m < FirstText(block.content.v) /\ block.content.v[m] = NullObj
          \/ /\ FirstText(block.content.v) <= Len(block.content.v)
             /\ ~Has(block.content.v[FirstText(block.content.v)], "text")

\* the body of the try block of extractEvent raises: extractUserContent meets
\* a block it cannot read, or msg.content of an assistant message is truthy
\* and not iterable, or one of its blocks is null
Throwing(record) ==
    /\ Has(record, "message") /\ record.message # NullObj
    /\ Has(record.message, "content")
    /\ \/ /\ record.type = "user"
          /\ record.message.content.t = "array"
          /\ \E i \in 1..Len(record.message.content.v) :
                UserBlockThrows(record.message.content.v[i])
       \/ /\ record.type = "assistant"
          /\ \/ record.message.content.t = "number" /\ record.message.content.v # 0
             \/ /\ record.message.content.t = "array"
                /\ \E i \in 1..Len(record.message.content.v) :
                      record.message.content.v[i] = NullObj

\* variant: the catch returns the events pushed before the exception
Caught_KeepPushed(record) ==
    IF record.type = "assistant" /\ record.message.content.t = "array"
    THEN AssistantEvents(
             record.message,
             SubSeq(record.message.content.v, 1,
                    (CHOOSE k \in 1..Len(record.message.content.v) :
                        /\ record.message.content.v[k] = NullObj
                        /\ \A m \in 1..(k - 1) : record.message.content.v[m] # NullObj) - 1))
    ELSE <<>>

\* catch (e) { return null; }
Caught(record) == <<>>

\* variant: every queue operation starts a session
QueueOperationResult_AnyOperation(record) ==
    <<[type |-> "session-start", content |-> "Session started",
       messageId |-> JsNull, isComplete |-> FALSE]>>

\* the result of case 'queue-operation'
QueueOperationResult(record) ==
    IF Get(record, "operation") = "dequeue"
    THEN <<[type |-> "session-start", content |-> "Session started",
            messageId |-> JsNull, isComplete |-> FALSE]>>
    ELSE <<>>

\* extractEvent(record), normalised to the list _processLine iterates:
\* <<>> stands for a null result
extractEvent(record) ==
    IF record = NullObj \/ ~Truthy(Get(record, "type")) THEN <<>>
    ELSE IF Throwing(record) THEN Caught(record)
    ELSE IF record.type = "queue-operation" THEN QueueOperationResult(record)
    ELSE IF record.type = "file-history-snapshot" THEN <<>>
    ELSE IF record.type = "user"
    THEN IF ~Has(record, "message") \/ record.message = NullObj THEN <<>>
         ELSE UserResult(record.message,
                         IF Has(record.message, "content")
                         THEN extractUserContent(record.message.content) ELSE JsNull)
    ELSE IF record.type = "assistant"
    THEN IF ~Has(record, "message") \/ record.message = NullObj THEN <<>>
         ELSE AssistantResult(record.message,
                              AssistantEvents(record.message, ContentBlocks(record.message)))
    ELSE <<>>

----------------------------------------------------------------------------
(* Merge Engine: SessionWatcher._processLine *)

\* this.emit(name, payload)
Notification(name, payload) == [name |-> name, payload |-> payload]

\* variant: the kind of the event is not tested
IsMergeable_AnyKind(event) == Truthy(event.messageId)

\* event.messageId && (event.type === 'text' || ... 'thinking' || ... 'tool_use')
IsMergeable(event) ==
    /\ Truthy(event.messageId)
    /\ event.type \in {"text", "thinking", "tool_use"}

\* `${event.messageId}:${event.type}:${event.toolName || ''}`
MergeKey(event) ==
    event.messageId \o ":" \o event.type \o ":" \o OrElse(Get(event, "toolName"), "")

\* variant: any change of length counts as growth
ContentGrew_AnyChange(event, prevContent, newContent) ==
    event.type = "text" /\ Len(newContent) # Len(prevContent)

\* variant: content of equal length counts as growth
ContentGrew_NotShorter(event, prevContent, newContent) ==
    event.type = "text" /\ Len(newContent) >= Len(prevContent)

\* event.type === 'text' && newContent.length > prevContent.length
ContentGrew(event, prevContent, newContent) ==
    event.type = "text" /\ Len(newContent) > Len(prevContent)

\* variant: the stored completion flag is not consulted
NewlyComplete_IgnoreStored(event, existing) == event.isComplete

\* event.isComplete && !existing.isComplete
NewlyComplete(event, existing) == event.isComplete /\ ~existing.isComplete

\* if (event.usage) existing.usage = event.usage
WithUsage(existing, event) ==
    IF Has(event, "usage") /\ event.usage # NullObj
    THEN Spread(existing, [usage |-> event.usage]) ELSE existing

\* variant: the growth branch does not replace the stored content
GrowExisting_KeepContent(existing, event, newContent) ==
    WithUsage(Spread(existing, [isComplete |-> event.isComplete]), event)

\* the assignments of the content-growth branch
GrowExisting(existing, event, newContent) ==
    WithUsage(Spread(existing, [content |-> newContent, isComplete |-> event.isComplete]), event)

\* variant: the completion branch takes the content of the fragment too
CompleteExisting_TakeContent(existing, event) ==
    WithUsage(Spread(existing, [isComplete |-> TRUE, content |-> Get(event, "content")]), event)

\* the assignments of the completion branch
CompleteExisting(existing, event) ==
    WithUsage(Spread(existing, [isComplete |-> TRUE]), event)

\* variant: updates are emitted during replay too
UpdateNotifications_AlsoHistory(existing, sessionIndex, isHistory) ==
    <<Notification("event",
         Spread(existing, [sessionIndex |-> sessionIndex, isUpdate |-> TRUE]))>>

\* if (!isHistory) this.emit('event', { ...existing, sessionIndex, isUpdate: true })
UpdateNotifications(existing, sessionIndex, isHistory) ==
    IF ~isHistory
    THEN <<Notification("event",
              Spread(existing, [sessionIndex |-> sessionIndex, isUpdate |-> TRUE]))>>
    ELSE <<>>

\* this.emit('event', { ...event, sessionIndex, isHistory, isUpdate: false })
PlainNotifications(event, sessionIndex, isHistory) ==
    <<Notification("event",
         Spread(event, [sessionIndex |-> sessionIndex, isHistory |-> isHistory,
                        isUpdate |-> FALSE]))>>

\* variant: the first fragment is stored and the loop body is left without emitting
StoreFirst_Buffered(ms, event, sessionIndex, isHistory) ==
    [ms  |-> (MergeKey(event) :> event) @@ ms,
     out |-> <<>>,
     ret |-> FALSE]

\* the branch taken when the key of a mergeable event has no state yet:
\* the event is stored and control falls through to the emit at the end of the loop body
StoreFirst(ms, event, sessionIndex, isHistory) ==
    [ms  |-> (MergeKey(event) :> event) @@ ms,
     out |-> PlainNotifications(event, sessionIndex, isHistory),
     ret |-> FALSE]

\* variant: the state of a message is dropped from the table once it is complete
StoreUpdated_EvictComplete(ms, key, e2, sessionIndex, isHistory) ==
    [ms  |-> IF e2.isComplete THEN [k \in DOMAIN ms \ {key} |-> ms[k]]
             ELSE [ms EXCEPT ![key] = e2],
     out |-> UpdateNotifications(e2, sessionIndex, isHistory),
     ret |-> TRUE]

\* the end of both updating branches: the stored state of key is now e2,
\* an update is emitted for live input, and `return` leaves _processLine
StoreUpdated(ms, key, e2, sessionIndex, isHistory) ==
    [ms  |-> [ms EXCEPT ![key] = e2],
     out |-> UpdateNotifications(e2, sessionIndex, isHistory),
     ret |-> TRUE]

\* the if / else if on the stored state existing of key
MergeInto(ms, key, existing, event, sessionIndex, isHistory) ==
    IF ContentGrew(event, OrElse(Get(existing, "content"), ""),
                   OrElse(Get(event, "content"), ""))
    THEN StoreUpdated(ms, key,
                      GrowExisting(existing, event, OrElse(Get(event, "content"), "")),
                      sessionIndex, isHistory)
    ELSE IF NewlyComplete(event, existing)
    THEN StoreUpdated(ms, key, CompleteExisting(existing, event), sessionIndex, isHistory)
    ELSE [ms |-> ms, out |-> <<>>, ret |-> TRUE]

\* the branch taken when the key of a mergeable event already has state;
\* it ends with `return`, which leaves _processLine
MergeExisting(ms, event, sessionIndex, isHistory) ==
    MergeInto(ms, MergeKey(event), ms[MergeKey(event)], event, sessionIndex, isHistory)

\* one iteration of the loop over eventList
MergeEvent(ms, event, sessionIndex, isHistory) ==
    IF IsMergeable(event)
    THEN IF MergeKey(event) \in DOMAIN ms
         THEN MergeExisting(ms, event, sessionIndex, isHistory)
         ELSE StoreFirst(ms, event, sessionIndex, isHistory)
    ELSE [ms  |-> ms,
          out |-> PlainNotifications(event, sessionIndex, isHistory),
          ret |-> FALSE]

\* the state of one _processLine call: the merge table, the notifications emitted,
\* the iterations that ran, and whether `return` has left the call
CallState(ms) == [ms |-> ms, out |-> <<>>, steps |-> <<>>, ret |-> FALSE]

\* the call state after the iteration on event, whose result is r
AfterIteration(call, event, r) ==
    [ms    |-> r.ms,
     out   |-> call.out \o r.out,
     steps |-> Append(call.steps,
                      [event |-> event, before |-> call.ms, after |-> r.ms, out |-> r.out]),
     ret   |-> r.ret]

\* one iteration, unless the call has returned
Iterate(call, event, sessionIndex, isHistory) ==
    IF call.ret THEN call
    ELSE AfterIteration(call, event, MergeEvent(call.ms, event, sessionIndex, isHistory))

\* for (const event of eventList) { ... }
RECURSIVE ProcessEvents(_, _, _, _)
ProcessEvents(call, events, sessionIndex, isHistory) ==
    IF events = <<>> THEN call
    ELSE ProcessEvents(Iterate(call, Head(events), sessionIndex, isHistory),
                       Tail(events), sessionIndex, isHistory)

\* _processLine(line, isHistory) on the merge table ms of slot sessionIndex
processLine(ms, line, sessionIndex, isHistory) ==
    ProcessEvents(CallState(ms), extractEvent(parseRecord(line)), sessionIndex, isHistory)

\* the state of a loop over lines: the merge table, the notifications emitted and
\* one feed per _processLine call
LoopState(ms) == [ms |-> ms, out |-> <<>>, feeds |-> <<>>]

\* the loop state after the _processLine call on line, whose result is r
AfterLine(loop, line, isHistory, r) ==
    [out   |-> loop.out \o r.out,
     ms    |-> r.ms,
     feeds |-> Append(loop.feeds,
                      [line |-> line, isHistory |-> isHistory, before |-> loop.ms,
                       after |-> r.ms, out |-> r.out, steps |-> r.steps,
                       record |-> parseRecord(line),
                       events |-> extractEvent(parseRecord(line))])]

\* for (const line of lines) this._processLine(line, isHistory): the loop over
\* lines is the loop over their first half followed by the loop over the rest;
\* ThenLines continues with the rest once the first half has been evaluated
RECURSIVE ProcessLines(_, _, _, _)
ThenLines(loop, rest, sessionIndex, isHistory) ==
    IF DOMAIN loop = {} THEN loop
    ELSE ProcessLines(loop, rest, sessionIndex, isHistory)

ProcessLines(loop, lines, sessionIndex, isHistory) ==
    IF lines = <<>> THEN loop
    ELSE IF Len(lines) = 1
    THEN AfterLine(loop, lines[1], isHistory,
                   processLine(loop.ms, lines[1], sessionIndex, isHistory))
    ELSE ThenLines(ProcessLines(loop, SubSeq(lines, 1, Len(lines) \div 2),
                                sessionIndex, isHistory),
                   SubSeq(lines, Len(lines) \div 2 + 1, Len(lines)),
                   sessionIndex, isHistory)

----------------------------------------------------------------------------
(* The file system, as the watcher reads it *)

\* A file system entry is a regular file [mtime, content], a regular file whose
\* mode denies reading [mtime, content, denied], or a symbolic link whose target
\* is missing [dangling].

\* the session log names a directory listing may contain, in listing order
FileNames == <<"s.jsonl">>

\* the other names a directory listing may contain
OtherNames == <<"n.txt">>

\* the directories of the file system (fs.readdirSync and fs.accessSync succeed on them)
ExistingDirs == {"d1", "d2"}

\* fs.statSync(p) succeeds
CanStat(fsys, p) == p \in DOMAIN fsys /\ Has(fsys[p], "mtime")

\* fs.readFileSync(p) and fs.openSync(p, 'r') succeed
CanRead(fsys, p) == CanStat(fsys, p) /\ ~Has(fsys[p], "denied")

\* path.join(dir, f)
PathJoin(dir, f) == dir \o "/" \o f

\* f.endsWith(suffix)
EndsWith(f, suffix) ==
    Len(f) >= Len(suffix) /\ SubSeq(f, Len(f) - Len(suffix) + 1, Len(f)) = suffix

\* fs.readdirSync(dir) of a directory that exists
readdirSync(fsys, dir) ==
    SelectSeq(OtherNames \o FileNames, LAMBDA f : PathJoin(dir, f) \in DOMAIN fsys)

\* fs.statSync(p).size; the caller checks that p exists
StatSize(fsys, p) == Len(fsys[p].content)

\* allFiles.sort((a, b) => b.mtime - a.mtime): a stable sort, latest first
RECURSIVE InsertByMtime(_, _)
InsertByMtime(sorted, x) ==
    IF sorted = <<>> THEN <<x>>
    ELSE IF x.mtime > Head(sorted).mtime THEN <<x>> \o sorted
    ELSE <<Head(sorted)>> \o InsertByMtime(Tail(sorted), x)

RECURSIVE SortByMtimeDesc(_)
SortByMtimeDesc(xs) ==
    IF xs = <<>> THEN <<>>
    ELSE InsertByMtime(SortByMtimeDesc(SubSeq(xs, 1, Len(xs) - 1)), xs[Len(xs)])

\* the map callback: { file: full, mtime } or, when fs.statSync throws, null,
\* which filter(Boolean) drops
StatEntry(fsys, full) ==
    IF CanStat(fsys, full) THEN <<[file |-> full, mtime |-> fsys[full].mtime]>> ELSE <<>>

\* .map(f => ...).filter(Boolean) over the listed names
RECURSIVE StatAll(_, _, _)
StatAll(fsys, dir, names) ==
    IF names = <<>> THEN <<>>
    ELSE StatEntry(fsys, PathJoin(dir, Head(names))) \o StatAll(fsys, dir, Tail(names))

\* the candidates one directory contributes to _getBestFile; a directory that
\* cannot be listed makes fs.readdirSync throw into the empty catch
DirCandidates(fsys, dir) ==
    IF dir \notin ExistingDirs THEN <<>>
    ELSE StatAll(fsys, dir,
                 SelectSeq(readdirSync(fsys, dir), LAMBDA f : EndsWith(f, ".jsonl")))

\* variant: the first directory that cannot be listed ends the scan
RECURSIVE AllCandidates_AbortOnError(_, _)
AllCandidates_AbortOnError(fsys, ds) ==
    IF ds = <<>> \/ Head(ds) \notin ExistingDirs THEN <<>>
    ELSE DirCandidates(fsys, Head(ds)) \o AllCandidates_AbortOnError(fsys, Tail(ds))

\* for (const dir of this.dirs) { try { ... allFiles.push(...files) } catch (e) {} }
RECURSIVE AllCandidates(_, _)
AllCandidates(fsys, ds) ==
    IF ds = <<>> THEN <<>>
    ELSE DirCandidates(fsys, Head(ds)) \o AllCandidates(fsys, Tail(ds))

\* variant: the most recent file whatever the rank
NthFile_Newest(allFiles, nth) == IF Len(allFiles) > 0 THEN allFiles[1].file ELSE NoPath

\* allFiles.length > nth ? allFiles[nth].file : null
NthFile(allFiles, nth) == IF Len(allFiles) > nth THEN allFiles[nth + 1].file ELSE NoPath

\* SessionWatcher._getBestFile
getBestFile(w, fsys) == NthFile(SortByMtimeDesc(AllCandidates(fsys, w.dirs)), w.sessionIndex)

\* readAllLines(filePath): [] when the read throws
readAllLines(fsys, filePath) ==
    IF CanRead(fsys, filePath) THEN NonBlankLines(fsys[filePath].content) ELSE <<>>

----------------------------------------------------------------------------
(* SessionWatcher *)

ReplayLimit == 50

\* lines.slice(-n)
LastN(lines, n) ==
    IF Len(lines) <= n THEN lines ELSE SubSeq(lines, Len(lines) - n + 1, Len(lines))

\* variant: the constructor leaves currentFile undefined
NewWatcher_UndefinedFile(ds, sessionIndex) ==
    [dirs |-> ds, sessionIndex |-> sessionIndex, currentFile |-> JsUndefined, fileSize |-> 0,
     watcher |-> NoPath, dirWatcher |-> FALSE, checkInterval |-> FALSE,
     messageStates |-> <<>>]

\* new SessionWatcher(dirs, sessionIndex)
NewWatcher(ds, sessionIndex) ==
    [dirs |-> ds, sessionIndex |-> sessionIndex, currentFile |-> NoPath, fileSize |-> 0,
     watcher |-> NoPath, dirWatcher |-> FALSE, checkInterval |-> FALSE,
     messageStates |-> <<>>]

\* the watcher after _loadFile: cursor at size, lines replayed with result r,
\* tail watch on filePath
Loaded(w, filePath, size, r) ==
    [w |-> [w EXCEPT !.fileSize = size, !.messageStates = r.ms, !.watcher = filePath],
     out |-> r.out, feeds |-> r.feeds]

\* SessionWatcher._loadFile(filePath); the result carries the watcher object,
\* the notifications emitted and the _processLine calls made.  fsys is the file
\* system readAllLines sees, later the one the following fs.statSync sees: the
\* external writer may act between the two calls
loadFile(w, fsys, later, filePath) ==
    Loaded(w, filePath,
           IF CanStat(later, filePath) THEN StatSize(later, filePath) ELSE 0,
           ProcessLines(LoopState(w.messageStates),
                        LastN(readAllLines(fsys, filePath), ReplayLimit),
                        w.sessionIndex, TRUE))

\* variant: the tail watch of the old file stays open
closeTail_StillOpen(w) == w

\* if (this.watcher) { this.watcher.close(); this.watcher = null; }
closeTail(w) == [w EXCEPT !.watcher = NoPath]

\* variant: the merge table is kept across the switch
Cleared_KeepStates(w, best) ==
    [closeTail(w) EXCEPT !.currentFile = best]

\* the watcher after the tail watch is closed and the merge table cleared
Cleared(w, best) ==
    [closeTail(w) EXCEPT !.currentFile = best, !.messageStates = <<>>]

\* variant: 'file-change' is emitted after the replay
Opened_NotifyLast(sessionIndex, best, r) ==
    [w |-> r.w,
     out |-> r.out
             \o <<Notification("file-change", [file |-> best, sessionIndex |-> sessionIndex])>>,
     feeds |-> r.feeds, switched |-> TRUE]

\* this.emit('file-change', ...) followed by what _loadFile did
Opened(sessionIndex, best, r) ==
    [w |-> r.w,
     out |-> <<Notification("file-change", [file |-> best, sessionIndex |-> sessionIndex])>>
             \o r.out,
     feeds |-> r.feeds, switched |-> TRUE]

\* the body of _checkForNewFile once best is known
SwitchTo(w, fsys, later, best) ==
    IF best # w.currentFile
    THEN IF best # NoPath
         THEN Opened(w.sessionIndex, best, loadFile(Cleared(w, best), fsys, later, best))
         ELSE [w |-> Cleared(w, best),
               out |-> <<Notification("no-file", [sessionIndex |-> w.sessionIndex])>>,
               feeds |-> <<>>, switched |-> TRUE]
    ELSE [w |-> w, out |-> <<>>, feeds |-> <<>>, switched |-> FALSE]

\* SessionWatcher._checkForNewFile; switched tells whether the file was replaced
checkForNewFile(w, fsys, later) == SwitchTo(w, fsys, later, getBestFile(w, fsys))

\* variant: a file of exactly the cursor's size is still read
NothingNew_Strict(size, fileSize) == size < fileSize

\* if (stat.size <= this.fileSize) return
NothingNew(size, fileSize) == size <= fileSize

\* variant: the read starts at position 0
ReadBuffer_FromStart(content, fileSize, size) == SubSeq(content, 1, size - fileSize)

\* the bytes fs.readSync(fd, buffer, 0, buffer.length, this.fileSize) puts in a buffer
\* of stat.size - this.fileSize bytes
ReadBuffer(content, fileSize, size) == SubSeq(content, fileSize + 1, size)

\* this.fileSize = stat.size
AdvanceCursor(fileSize, size) == size

\* a handler run that read nothing
NoRead == [done |-> FALSE, from |-> 0, to |-> 0, bytes |-> <<>>]

\* the watcher after the lines of buffer were processed with result r
Consumed(w, size, buffer, r) ==
    [w |-> [w EXCEPT !.fileSize = AdvanceCursor(w.fileSize, size), !.messageStates = r.ms],
     out |-> r.out, feeds |-> r.feeds,
     read |-> [done |-> TRUE, from |-> w.fileSize, to |-> w.fileSize + Len(buffer),
               bytes |-> buffer]]

\* xs in reverse order
Reversed(xs) == [i \in 1..Len(xs) |-> xs[Len(xs) - i + 1]]

\* variant: the lines of the buffer are processed last to first
ProcessBuffer_Reversed(w, size, buffer) ==
    Consumed(w, size, buffer,
             ProcessLines(LoopState(w.messageStates), Reversed(NonBlankLines(buffer)),
                          w.sessionIndex, FALSE))

\* the part of _readNewContent after the read into buffer
ProcessBuffer(w, size, buffer) ==
    Consumed(w, size, buffer,
             ProcessLines(LoopState(w.messageStates), NonBlankLines(buffer),
                          w.sessionIndex, FALSE))

\* variant: a file shorter than the cursor moves the cursor back to its size
ReadFrom_FollowTruncation(w, content, size) ==
    IF size < w.fileSize
    THEN [w |-> [w EXCEPT !.fileSize = size], out |-> <<>>, feeds |-> <<>>, read |-> NoRead]
    ELSE IF NothingNew(size, w.fileSize)
    THEN [w |-> w, out |-> <<>>, feeds |-> <<>>, read |-> NoRead]
    ELSE ProcessBuffer(w, size, ReadBuffer(content, w.fileSize, size))

\* the part of _readNewContent after fs.statSync returned size
ReadFrom(w, content, size) ==
    IF NothingNew(size, w.fileSize)
    THEN [w |-> w, out |-> <<>>, feeds |-> <<>>, read |-> NoRead]
    ELSE ProcessBuffer(w, size, ReadBuffer(content, w.fileSize, size))

\* variant: a read that fails after fs.statSync still moves the cursor to the size
readNewContent_AdvanceOnFailure(w, fsys, filePath) ==
    IF ~CanRead(fsys, filePath)
    THEN [w |-> IF CanStat(fsys, filePath)
                THEN [w EXCEPT !.fileSize = StatSize(fsys, filePath)] ELSE w,
          out |-> <<>>, feeds |-> <<>>, read |-> NoRead]
    ELSE ReadFrom(w, fsys[filePath].content, StatSize(fsys, filePath))

\* SessionWatcher._readNewContent(filePath); read describes the read performed;
\* fs.statSync or fs.openSync throwing is swallowed by the catch
readNewContent(w, fsys, filePath) ==
    IF ~CanRead(fsys, filePath)
    THEN [w |-> w, out |-> <<>>, feeds |-> <<>>, read |-> NoRead]
    ELSE ReadFrom(w, fsys[filePath].content, StatSize(fsys, filePath))

----------------------------------------------------------------------------
(* The records the external writer appends to a session log *)

Usage1 == [input_tokens |-> 10, output_tokens |-> 2]
Usage2 == [input_tokens |-> 10, output_tokens |-> 7]

TextBlock(text) == [type |-> "text", text |-> text]

\* an assistant record of message id with the given content blocks
Assistant(id, blocks, stopReason, usage) ==
    [type |-> "assistant",
     message |-> [id |-> id, content |-> [t |-> "array", v |-> blocks],
                  stop_reason |-> stopReason, usage |-> usage]]

Text5 == "aaaaa"
Text9 == "bbbbbbbbb"
Text12 == "cccccccccccc"

RecText5 == Assistant("m1", <<TextBlock(Text5)>>, JsNull, Usage1)
RecText12 == Assistant("m1", <<TextBlock(Text12)>>, JsNull, Usage1)
RecText9 == Assistant("m1", <<TextBlock(Text9)>>, JsNull, Usage1)
RecText9Done == Assistant("m1", <<TextBlock(Text9)>>, "end_turn", Usage2)

ToolBlocks ==
    <<[type |-> "thinking", thinking |-> "plan"],
      TextBlock(Text5),
      [type |-> "tool_use", name |-> "Bash", input |-> <<<<"command", "ls">>>>]>>

RecTool == Assistant("m1", ToolBlocks, JsNull, Usage1)
RecToolDone == Assistant("m1", ToolBlocks, "tool_use", Usage2)

\* an assistant record whose message has no id
RecNoId ==
    [type |-> "assistant",
     message |-> [content |-> [t |-> "array", v |-> <<TextBlock(Text5)>>],
                  stop_reason |-> JsNull, usage |-> Usage1]]

\* a completion signal without content blocks
RecStop == Assistant("m1", <<>>, "end_turn", Usage2)

RecUser == [type |-> "user", message |-> [content |-> [t |-> "string", v |-> "fix it"]]]

RecDequeue == [type |-> "queue-operation", operation |-> "dequeue"]

Pool ==
    {RecText5, RecText12, RecText9, RecText9Done, RecTool, RecToolDone,
     RecNoId, RecStop, RecUser}

----------------------------------------------------------------------------
(* State machine *)

Sessions == 0..(numSessions - 1)

AllPaths == {PathJoin(dirs[i], FileNames[j]) : i \in 1..Len(dirs), j \in 1..Len(FileNames)}

Op(name, sess, path, cursor, size, read) ==
    [name |-> name, sess |-> sess, path |-> path, cursor |-> cursor, size |-> size,
     read |-> read]

\* the state after new HackviewApp(opts): no watcher exists before start()
Init ==
    /\ dirs = <<"d1">>
    /\ numSessions = 1
    /\ watchers = <<>>
    /\ files = <<>>
    /\ now = 0
    /\ emitted = <<>>
    /\ feeds = <<>>
    /\ lastOp = Op("new", -1, NoPath, 0, 0, NoRead)
    /\ closed = <<>>

\* variant: no timer is set
Started_NoTimer(r, hasValidDirs) ==
    [r EXCEPT !.w = [r.w EXCEPT !.dirWatcher = hasValidDirs]]

\* the watcher once start() has set the timer and the directory watch
Started(r, hasValidDirs) ==
    [r EXCEPT !.w = [r.w EXCEPT !.checkInterval = TRUE, !.dirWatcher = hasValidDirs]]

\* SessionWatcher.start() on a fresh watcher
start(w, fsys, later) ==
    Started(checkForNewFile(w, fsys, later),
            Len(SelectSeq(w.dirs, LAMBDA d : d \in ExistingDirs)) > 0)

\* the effect of HackviewApp.start() given the result of start() for every slot
StartedAll(all) ==
    /\ watchers' = [i \in DOMAIN all |-> all[i].w]
    /\ emitted' = [i \in DOMAIN all |-> all[i].out]
    /\ feeds' = [i \in DOMAIN all |-> all[i].feeds]

\* HackviewApp.start(): _startWatcher(i) for every slot, in one synchronous loop
StartApp ==
    /\ DOMAIN watchers = {}
    /\ StartedAll([i \in Sessions |-> start(NewWatcher(dirs, i), files, files)])
    /\ lastOp' = Op("start", -1, NoPath, 0, 0, NoRead)
    /\ closed' = [i \in Sessions |-> {}]
    /\ UNCHANGED <<dirs, numSessions, files, now>>

\* the effect on slot s of a _checkForNewFile call with result r
Checked(s, name, r) ==
    /\ watchers' = [watchers EXCEPT ![s] = r.w]
    /\ emitted' = [emitted EXCEPT ![s] = r.out]
    /\ feeds' = [feeds EXCEPT ![s] = IF r.switched THEN r.feeds ELSE @ \o r.feeds]
    /\ lastOp' = Op(name, s, r.w.currentFile, watchers[s].fileSize, 0, NoRead)

\* the 5 second timer of slot s fires: _checkForNewFile()
Timer(s) ==
    /\ s \in DOMAIN watchers
    /\ watchers[s].checkInterval /\ "timer" \notin closed[s]
    /\ Checked(s, "timer", checkForNewFile(watchers[s], files, files))
    /\ UNCHANGED <<dirs, numSessions, files, now, closed>>

\* variant: one merge table is shared by all slots
Tailed_SharedTable(s, filePath, r) ==
    /\ watchers' = [j \in DOMAIN watchers |->
                        IF j = s THEN r.w
                        ELSE [watchers[j] EXCEPT !.messageStates = r.w.messageStates]]
    /\ emitted' = [emitted EXCEPT ![s] = r.out]
    /\ feeds' = [feeds EXCEPT ![s] = @ \o r.feeds]
    /\ lastOp' = Op("change", s, filePath, watchers[s].fileSize,
                    IF CanStat(files, filePath) THEN StatSize(files, filePath) ELSE -1,
                    r.read)

\* the effect on slot s of a _readNewContent(filePath) call with result r
Tailed(s, filePath, r) ==
    /\ watchers' = [watchers EXCEPT ![s] = r.w]
    /\ emitted' = [emitted EXCEPT ![s] = r.out]
    /\ feeds' = [feeds EXCEPT ![s] = @ \o r.feeds]
    /\ lastOp' = Op("change", s, filePath, watchers[s].fileSize,
                    IF CanStat(files, filePath) THEN StatSize(files, filePath) ELSE -1,
                    r.read)

\* the tail watch of slot s delivers 'change': _readNewContent(filePath)
FileChange(s) ==
    /\ s \in DOMAIN watchers
    /\ watchers[s].watcher # NoPath /\ "tail" \notin closed[s]
    /\ Tailed(s, watchers[s].watcher,
              readNewContent(watchers[s], files, watchers[s].watcher))
    /\ UNCHANGED <<dirs, numSessions, files, now, closed>>

\* the external writer creates an empty session log
WriterCreate(p) ==
    /\ now < MaxClock
    /\ p \notin DOMAIN files
    /\ now' = now + 1
    /\ files' = (p :> [mtime |-> now + 1, content |-> <<>>]) @@ files
    /\ lastOp' = Op("create", -1, p, 0, 0, NoRead)
    /\ UNCHANGED <<dirs, numSessions, watchers, emitted, feeds, closed>>

\* the file system after one record and its newline are appended to p at time t
Appended(fsys, p, rec, t) ==
    [fsys EXCEPT ![p] = [@ EXCEPT !.mtime = t, !.content = @ \o Ser(rec) \o <<NL>>]]

\* the external writer appends one record and its newline
WriterAppend(p, rec) ==
    /\ now < MaxClock
    /\ CanStat(files, p)
    /\ Len(NonBlankLines(files[p].content)) < MaxLines
    /\ now' = now + 1
    /\ files' = Appended(files, p, rec, now + 1)
    /\ lastOp' = Op("append", -1, p, 0, 0, NoRead)
    /\ UNCHANGED <<dirs, numSessions, watchers, emitted, feeds, closed>>

\* the session log is removed
WriterDelete(p) ==
    /\ now < MaxClock
    /\ p \in DOMAIN files
    /\ now' = now + 1
    /\ files' = [q \in DOMAIN files \ {p} |-> files[q]]
    /\ lastOp' = Op("delete", -1, p, 0, 0, NoRead)
    /\ UNCHANGED <<dirs, numSessions, watchers, emitted, feeds, closed>>

\* a symbolic link whose target is missing appears at p
WriterLink(p) ==
    /\ now < MaxClock
    /\ p \notin DOMAIN files
    /\ now' = now + 1
    /\ files' = (p :> [dangling |-> TRUE]) @@ files
    /\ lastOp' = Op("link", -1, p, 0, 0, NoRead)
    /\ UNCHANGED <<dirs, numSessions, watchers, emitted, feeds, closed>>

\* the mode of p changes: reading is denied, or allowed again
WriterChmod(p) ==
    /\ now < MaxClock
    /\ CanStat(files, p)
    /\ now' = now + 1
    /\ files' = [files EXCEPT ![p] =
                    IF Has(@, "denied") THEN [mtime |-> @.mtime, content |-> @.content]
                    ELSE [mtime |-> @.mtime, content |-> @.content, denied |-> TRUE]]
    /\ lastOp' = Op("chmod", -1, p, 0, 0, NoRead)
    /\ UNCHANGED <<dirs, numSessions, watchers, emitted, feeds, closed>>

\* the 'add' callback of the directory watch: a re-check for session logs only
dirAdded(w, fsys, later, filePath) ==
    IF EndsWith(filePath, ".jsonl") THEN checkForNewFile(w, fsys, later)
    ELSE [w |-> w, out |-> <<>>, feeds |-> <<>>, switched |-> FALSE]

\* the directory watch of slot s delivers 'add' for the file f that appeared in d
DirAdd(s, d, f) ==
    /\ s \in DOMAIN watchers
    /\ watchers[s].dirWatcher /\ "dir" \notin closed[s]
    /\ d \in ExistingDirs /\ \E i \in 1..Len(watchers[s].dirs) : watchers[s].dirs[i] = d
    /\ PathJoin(d, f) \in DOMAIN files
    /\ Checked(s, IF EndsWith(f, ".jsonl") THEN "add" ELSE "add-other",
               dirAdded(watchers[s], files, files, PathJoin(d, f)))
    /\ UNCHANGED <<dirs, numSessions, files, now, closed>>

\* variant: the timer is left running
stop_KeepTimer(w) ==
    (IF w.watcher # NoPath THEN {"tail"} ELSE {})
    \cup (IF w.dirWatcher THEN {"dir"} ELSE {})

\* SessionWatcher.stop(): the handles it releases
stop(w) ==
    (IF w.checkInterval THEN {"timer"} ELSE {})
    \cup (IF w.watcher # NoPath THEN {"tail"} ELSE {})
    \cup (IF w.dirWatcher THEN {"dir"} ELSE {})

\* stop() is called on the watcher of slot s
Stop(s) ==
    /\ s \in DOMAIN watchers
    /\ closed' = [closed EXCEPT ![s] = @ \cup {"stopped"} \cup stop(watchers[s])]
    /\ emitted' = [emitted EXCEPT ![s] = <<>>]
    /\ lastOp' = Op("stop", s, watchers[s].currentFile, watchers[s].fileSize, 0, NoRead)
    /\ UNCHANGED <<dirs, numSessions, watchers, files, now, feeds>>

\* the timer of slot s fires while the external writer appends rec to p: the
\* append lands after readAllLines and before fs.statSync of a _loadFile call
TimerRacing(s, p, rec) ==
    /\ s \in DOMAIN watchers
    /\ watchers[s].checkInterval /\ "timer" \notin closed[s]
    /\ now < MaxClock
    /\ CanStat(files, p)
    /\ Len(NonBlankLines(files[p].content)) < MaxLines
    /\ now' = now + 1
    /\ files' = Appended(files, p, rec, now + 1)
    /\ Checked(s, "timer", checkForNewFile(watchers[s], files,
                                            Appended(files, p, rec, now + 1)))
    /\ UNCHANGED <<dirs, numSessions, closed>>

Next ==
    \/ StartApp
    \/ \E s \in Sessions : Timer(s)
    \/ \E s \in Sessions : FileChange(s)
    \/ \E p \in AllPaths : WriterCreate(p)
    \/ \E p \in AllPaths, rec \in Pool : WriterAppend(p, rec)
    \/ \E p \in AllPaths : WriterDelete(p)

Spec == Init /\ [][Next]_vars

----------------------------------------------------------------------------
(* Opening a session log that exists at startup: the slot is started on a  *)
(* directory that may already hold a long log, and the external writer may *)
(* append while a file is being opened.                                    *)

\* the decimal digit d as a string
Digit(d) == SubSeq("0123456789", d + 1, d + 1)

\* the i-th record of a log found at startup: a user message that reads i
SeedRecord(i) ==
    [type |-> "user",
     message |-> [content |-> [t |-> "string", v |-> Digit(i \div 10) \o Digit(i % 10)]]]

\* a log of n records; with blanks, it starts with an empty line and has a
\* line of white space after every tenth record
RECURSIVE SeedContent(_, _)
SeedContent(n, blanks) ==
    IF n = 0 THEN (IF blanks THEN <<NL>> ELSE <<>>)
    ELSE SeedContent(n - 1, blanks) \o Ser(SeedRecord(n)) \o <<NL>>
         \o (IF blanks /\ n % 10 = 0 THEN <<Blank, NL>> ELSE <<>>)

SeedSizes == {1, ReplayLimit - 1, ReplayLimit, ReplayLimit + 1, MaxSeed}

ReplayPool == {RecText5, RecUser}

ReplayInit ==
    /\ dirs = <<"d1">>
    /\ numSessions = 1
    /\ watchers = <<>>
    /\ files \in {<<>>} \cup
                 {(PathJoin("d1", FileNames[1]) :>
                      [mtime |-> 0, content |-> SeedContent(n, blanks)]) :
                      n \in SeedSizes, blanks \in BOOLEAN}
    /\ now = 0
    /\ emitted = <<>>
    /\ feeds = <<>>
    /\ lastOp = Op("new", -1, NoPath, 0, 0, NoRead)
    /\ closed = <<>>

ReplayNext ==
    \/ StartApp
    \/ \E s \in Sessions : Timer(s)
    \/ \E s \in Sessions : FileChange(s)
    \/ \E p \in AllPaths : WriterCreate(p)
    \/ \E p \in AllPaths, rec \in ReplayPool : WriterAppend(p, rec)
    \/ \E p \in AllPaths : WriterDelete(p)
    \/ \E s \in Sessions, p \in AllPaths, rec \in ReplayPool : TimerRacing(s, p, rec)

ReplaySpec == ReplayInit /\ [][ReplayNext]_vars

----------------------------------------------------------------------------
(* File selection: two slots over three configured directories, the first  *)
(* of which does not exist; both triggers of a re-check, and stop().        *)

SelDirs == <<"d0", "d1", "d2">>

\* the paths the external writer uses
SelLogs == {PathJoin(d, FileNames[1]) : d \in ExistingDirs}
SelPaths == SelLogs \cup {PathJoin("d1", OtherNames[1])}

SelPool == {RecText5}

SelInit ==
    /\ dirs = SelDirs
    /\ numSessions = 2
    /\ watchers = <<>>
    /\ files = <<>>
    /\ now = 0
    /\ emitted = <<>>
    /\ feeds = <<>>
    /\ lastOp = Op("new", -1, NoPath, 0, 0, NoRead)
    /\ closed = <<>>

SelNext ==
    \/ StartApp
    \/ \E s \in Sessions : Timer(s)
    \/ \E s \in Sessions, d \in ExistingDirs, f \in {FileNames[1], OtherNames[1]} :
          DirAdd(s, d, f)
    \/ \E s \in Sessions : FileChange(s)
    \/ \E s \in Sessions : Stop(s)
    \/ \E p \in SelPaths : WriterCreate(p)
    \/ \E p \in SelLogs, rec \in SelPool : WriterAppend(p, rec)
    \/ \E p \in SelPaths : WriterDelete(p)
    \/ \E p \in SelLogs : WriterLink(p)

SelSpec == SelInit /\ [][SelNext]_vars

\* two slots on a list of directories that names a directory more than once,
\* as --dirs d1,d1 or --dirs d2,d1,d2 hands it to the watchers
RankInit ==
    /\ dirs \in {<<"d1", "d1">>, <<"d2", "d1", "d2">>}
    /\ numSessions = 2
    /\ watchers = <<>>
    /\ files = <<>>
    /\ now = 0
    /\ emitted = <<>>
    /\ feeds = <<>>
    /\ lastOp = Op("new", -1, NoPath, 0, 0, NoRead)
    /\ closed = <<>>

RankSpec == RankInit /\ [][SelNext]_vars

\* a step that records a run of the timer handler of slot s; a run right after
\* another of the same slot finds the same file selected
TimerFires(s) ==
    /\ s \in DOMAIN watchers
    /\ watchers[s].checkInterval /\ "timer" \notin closed[s]
    /\ lastOp' \in {Op("timer", s, p, watchers[s].fileSize, 0, NoRead) :
                       p \in AllPaths \cup {NoPath}}
    /\ (lastOp.name = "timer" /\ lastOp.sess = s) => lastOp'.path = lastOp.path

\* the triggers of a re-check, stop(), and a writer that creates, extends,
\* removes and links session logs
PollNext ==
    \/ StartApp
    \/ \E s \in Sessions : Timer(s)
    \/ \E s \in Sessions, d \in ExistingDirs : DirAdd(s, d, FileNames[1])
    \/ \E s \in Sessions : Stop(s)
    \/ \E p \in SelLogs : WriterCreate(p)
    \/ \E p \in SelLogs, rec \in SelPool : WriterAppend(p, rec)
    \/ \E p \in SelLogs : WriterDelete(p)
    \/ \E p \in SelLogs : WriterLink(p)

\* setInterval keeps firing the timer of a slot until clearInterval
FairPollSpec ==
    SelInit /\ [][PollNext]_vars /\ \A s \in 0..1 : WF_lastOp(TimerFires(s))

----------------------------------------------------------------------------
(* The parser and one _processLine call: a watcher that has processed some *)
(* lines is handed one more line, drawn from records of every kind and     *)
(* shape, well formed or not, in several framings.                         *)

S10 == "0123456789"
S50 == S10 \o S10 \o S10 \o S10 \o S10
S250 == S50 \o S50 \o S50 \o S50 \o S50

\* content blocks: one of a kind the extractor does not recognise, and a tool call
OddBlock == [type |-> "server_tool_use", name |-> "web_search"]
EditBlock == [type |-> "tool_use", name |-> "Edit", input |-> <<<<"file_path", "a.js">>>>]

\* known and unknown blocks interleaved, the last a thinking block without text
RecMixed ==
    Assistant("m2", <<OddBlock, TextBlock(Text9), OddBlock, EditBlock, [type |-> "thinking"]>>,
              JsNull, Usage1)
\* a null block between two readable ones
RecNullBlock == Assistant("m2", <<TextBlock(Text5), NullObj, EditBlock>>, "end_turn", Usage2)

\* a user record with the given message body
User(content) == [type |-> "user", message |-> [content |-> content]]

\* records of other shapes
OtherShapes ==
    {\* assistant records.  No stop_reason: a text block; no block
     [type |-> "assistant",
      message |-> [id |-> "m2", content |-> [t |-> "array", v |-> <<TextBlock(Text5)>>],
                   usage |-> Usage1]],
     [type |-> "assistant",
      message |-> [id |-> "m2", content |-> [t |-> "array", v |-> <<>>], usage |-> Usage1]],
     \* no recognised block: stop_reason null or set
     Assistant("m2", <<>>, JsNull, Usage1),
     Assistant("m2", <<OddBlock>>, "end_turn", Usage2),
     Assistant("m2", <<OddBlock>>, JsNull, Usage1),
     \* several blocks
     Assistant("m2", <<EditBlock, OddBlock, TextBlock(Text12)>>, "end_turn", Usage2),
     Assistant("m1", <<TextBlock(Text12), EditBlock>>, JsNull, Usage1),
     \* later fragments of the thinking block and the tool call of RecTool, with
     \* other content
     Assistant("m1", <<[type |-> "thinking", thinking |-> "plan, revised"]>>, "end_turn", Usage2),
     Assistant("m1", <<[type |-> "thinking", thinking |-> "p"]>>, JsNull, Usage2),
     Assistant("m1", <<[type |-> "tool_use", name |-> "Bash",
                        input |-> <<<<"command", "ls -la">>>>]>>, "tool_use", Usage2),
     Assistant("m1", <<[type |-> "tool_use", name |-> "Bash",
                        input |-> <<<<"command", "ls -la">>>>]>>, JsNull, Usage2),
     \* no usage
     [type |-> "assistant",
      message |-> [id |-> "m2", content |-> [t |-> "array", v |-> <<TextBlock(Text5)>>],
                   stop_reason |-> "end_turn"]],
     \* msg.content a string
     [type |-> "assistant",
      message |-> [id |-> "m2", content |-> [t |-> "string", v |-> "hi"],
                   stop_reason |-> JsNull]],
     \* no message; message null
     [type |-> "assistant"],
     [type |-> "assistant", message |-> NullObj],
     \* user records whose body gives no content: an empty string; an unknown
     \* block only; an empty text block; no block; no content; a number; no message
     User([t |-> "string", v |-> ""]),
     User([t |-> "array", v |-> <<[type |-> "document"]>>]),
     User([t |-> "array", v |-> <<TextBlock("")>>]),
     User([t |-> "array", v |-> <<>>]),
     [type |-> "user", message |-> [id |-> "u1"]],
     User([t |-> "number", v |-> 7]),
     [type |-> "user"],
     \* records of other kinds, a record without type, and lines that hold a
     \* JSON number and the JSON literal null
     [type |-> "queue-operation", operation |-> "enqueue"],
     [type |-> "queue-operation"],
     [type |-> "file-history-snapshot"],
     [type |-> "summary", summary |-> "notes"],
     [summary |-> "notes"],
     [scalar |-> 5],
     NullObj}

RecUserLong == User([t |-> "string", v |-> S250])
RecUserId ==
    [type |-> "user", message |-> [id |-> "u1", content |-> [t |-> "string", v |-> "go"]]]
RecUserBlocks ==
    User([t |-> "array",
          v |-> <<TextBlock("hello"),
                  [type |-> "tool_result", content |-> [t |-> "string", v |-> "ok"]],
                  [type |-> "tool_result", content |-> [t |-> "array", v |-> <<[type |-> "image"], TextBlock("out"), TextBlock("more")>>]],
                  [type |-> "tool_result", content |-> [t |-> "array", v |-> <<[type |-> "image"]>>]],
                  [type |-> "tool_result"],
                  [type |-> "image"],
                  [type |-> "document"]>>])
RecUserLongBlocks ==
    User([t |-> "array", v |-> <<TextBlock(S250), TextBlock(S250)>>])
RecUserLongResult ==
    User([t |-> "array",
          v |-> <<[type |-> "tool_result", content |-> [t |-> "string", v |-> S250]]>>])

\* records on which the body of extractEvent raises: content that is not
\* iterable, a null block, a text element without text or a null element in a
\* structured tool result
MalformedRecords ==
    {[type |-> "assistant",
      message |-> [id |-> "m2", content |-> [t |-> "number", v |-> 7],
                   stop_reason |-> "end_turn"]],
     RecNullBlock,
     User([t |-> "array", v |-> <<TextBlock("hello"), NullObj>>]),
     User([t |-> "array", v |-> <<TextBlock("hello"), [type |-> "tool_result", content |-> [t |-> "array", v |-> <<[type |-> "text"]>>]]>>]),
     User([t |-> "array", v |-> <<[type |-> "tool_result", content |-> [t |-> "array", v |-> <<NullObj, TextBlock("out")>>]]>>])}

ParseRecords ==
    Pool \cup OtherShapes \cup MalformedRecords
    \cup {RecMixed, RecUserLong, RecUserId, RecUserBlocks, RecUserLongBlocks,
          RecUserLongResult, RecDequeue}

\* the lines handed to _processLine: a record alone, a record between blanks,
\* a record cut short, two records on one line, and lines without a record
ParseLines ==
    {Ser(r) : r \in ParseRecords}
    \cup {<<Blank>> \o Ser(r) \o <<Blank, Blank>> : r \in ParseRecords}
    \cup {SubSeq(Ser(r), 1, SerLen - 1) : r \in ParseRecords}
    \cup {Ser(RecUser) \o Ser(RecUser), Ser(RecUser) \o <<Blank>> \o Ser(RecText5)}
    \cup {<<>>, <<Blank>>, <<Blank, Blank>>}

\* a watcher of slot 0 that has processed, live, some lines
ParseInit ==
    /\ dirs = <<"d1">>
    /\ numSessions = 1
    /\ files = <<>>
    /\ now = 0
    /\ emitted = (0 :> <<>>)
    /\ lastOp = Op("new", -1, NoPath, 0, 0, NoRead)
    /\ closed = (0 :> {})
    /\ \E prior \in {<<>>, <<Ser(RecText5)>>, <<Ser(RecText9Done)>>, <<Ser(RecTool)>>,
                      <<Ser(RecText5), Ser(RecMixed)>>} :
          LET r == ProcessLines(LoopState(<<>>), prior, 0, FALSE)
          IN  /\ watchers = (0 :> [NewWatcher(dirs, 0) EXCEPT !.messageStates = r.ms])
              /\ feeds = (0 :> r.feeds)

\* this._processLine(line, isHistory) on the watcher of slot s
ProcessLineCall(s, line, isHistory) ==
    /\ s \in DOMAIN watchers
    /\ lastOp.name = "new"
    /\ LET r == ProcessLines(LoopState(watchers[s].messageStates), <<line>>, s, isHistory)
       IN  /\ watchers' = [watchers EXCEPT ![s] = [@ EXCEPT !.messageStates = r.ms]]
           /\ emitted' = [emitted EXCEPT ![s] = r.out]
           /\ feeds' = [feeds EXCEPT ![s] = @ \o r.feeds]
    /\ lastOp' = Op("line", s, NoPath, watchers[s].fileSize, 0, NoRead)
    /\ UNCHANGED <<dirs, numSessions, files, now, closed>>

ParseNext == \E s \in Sessions, line \in ParseLines, isHistory \in BOOLEAN :
                ProcessLineCall(s, line, isHistory)

ParseSpec == ParseInit /\ [][ParseNext]_vars

----------------------------------------------------------------------------
(* Lines written in two steps: one slot on one directory whose session log *)
(* receives each line as two writes, with change notifications in between. *)

\* the external writer appends the first bytes of the line of rec, at the
\* start of a line
WriterBegin(p, rec) ==
    /\ now < MaxClock
    /\ CanStat(files, p)
    /\ IF files[p].content = <<>> THEN TRUE
       ELSE files[p].content[Len(files[p].content)] = NL
    /\ Len(NonBlankLines(files[p].content)) < MaxLines
    /\ now' = now + 1
    /\ files' = [files EXCEPT ![p] = [@ EXCEPT !.mtime = now + 1,
                                                !.content = @ \o SubSeq(Ser(rec), 1, SerLen - 1)]]
    /\ lastOp' = Op("begin", -1, p, 0, 0, NoRead)
    /\ UNCHANGED <<dirs, numSessions, watchers, emitted, feeds, closed>>

\* the external writer appends the rest of the line it began, and its newline
WriterFinish(p) ==
    /\ now < MaxClock
    /\ CanStat(files, p)
    /\ files[p].content # <<>>
    /\ Has(files[p].content[Len(files[p].content)], "rec")
    /\ files[p].content[Len(files[p].content)].piece < SerLen
    /\ now' = now + 1
    /\ files' = [files EXCEPT ![p] =
                    [@ EXCEPT !.mtime = now + 1,
                              !.content = @ \o SubSeq(Ser(@[Len(@)].rec), @[Len(@)].piece + 1, SerLen)
                                            \o <<NL>>]]
    /\ lastOp' = Op("finish", -1, p, 0, 0, NoRead)
    /\ UNCHANGED <<dirs, numSessions, watchers, emitted, feeds, closed>>

PartNext ==
    \/ StartApp
    \/ \E s \in Sessions : Timer(s)
    \/ \E s \in Sessions : FileChange(s)
    \/ \E p \in AllPaths : WriterCreate(p)
    \/ \E p \in AllPaths, rec \in ReplayPool : WriterBegin(p, rec)
    \/ \E p \in AllPaths : WriterFinish(p)

PartSpec == Init /\ [][PartNext]_vars

----------------------------------------------------------------------------
(* Read failures: one slot on one directory whose session log can have     *)
(* reading denied and allowed again while the slot opens and tails it.     *)

IoNext ==
    \/ StartApp
    \/ \E s \in Sessions : Timer(s)
    \/ \E s \in Sessions : FileChange(s)
    \/ \E p \in AllPaths : WriterCreate(p)
    \/ \E p \in AllPaths, rec \in ReplayPool : WriterAppend(p, rec)
    \/ \E p \in AllPaths : WriterChmod(p)

IoSpec == Init /\ [][IoNext]_vars

----------------------------------------------------------------------------
(* Vocabulary of the properties *)

\* the _processLine calls of slot s since its last file switch, and the loop
\* iterations (steps) each of them ran
FeedIndex(s) == 1..Len(feeds[s])

StepIndex(s, i) == 1..Len(feeds[s][i].steps)

\* a fragment that the Merge Engine reconciles by key
Streams(ev) ==
    /\ ev.messageId \notin {JsNull, JsUndefined, ""}
    /\ ev.type \in {"text", "thinking", "tool_use"}

KeyOf(ev) ==
    ev.messageId \o ":" \o ev.type \o ":" \o (IF "toolName" \in DOMAIN ev THEN ev.toolName ELSE "")

\* notification n is an 'event' that carries every field of record r
Carries(n, r) ==
    /\ n.name = "event"
    /\ \A k \in DOMAIN r : k \in DOMAIN n.payload /\ n.payload[k] = r[k]

\* n is the notification of a new (not updated) event ev of slot s
IsPlain(n, ev, s, isHistory) ==
    /\ Carries(n, ev)
    /\ n.payload.sessionIndex = s
    /\ "isHistory" \in DOMAIN n.payload /\ n.payload.isHistory = isHistory
    /\ n.payload.isUpdate = FALSE

\* n is an update notification of slot s for the stored state st
IsUpdateOf(n, st, s) ==
    /\ Carries(n, st)
    /\ n.payload.sessionIndex = s
    /\ n.payload.isUpdate = TRUE

UpdateCount(out) == Cardinality({k \in 1..Len(out) : out[k].payload.isUpdate})

\* rule (a): a text fragment strictly longer than the stored content
RuleA(ev, stored) == ev.type = "text" /\ Len(ev.content) > Len(stored.content)

\* rule (b): rule (a) does not apply, the fragment is complete, the stored state is not
RuleB(ev, stored) == ~RuleA(ev, stored) /\ ev.isComplete /\ ~stored.isComplete

----------------------------------------------------------------------------
----------------------------------------------------------------------------
(* C2: completion stickiness. Once the stored MergeState of a key has      *)
(* isComplete = true, no later fragment for the key sets it back to false. *)
(* The content-growth branch assigns existing.isComplete =                 *)
(* event.isComplete, so a longer incomplete text fragment reverts it.      *)
C2_CompletionSticky ==
    \A s \in DOMAIN feeds : \A i \in FeedIndex(s) : \A j \in StepIndex(s, i) :
        LET st == feeds[s][i].steps[j]
        IN  \A k \in DOMAIN st.before :
                st.before[k].isComplete => (k \in DOMAIN st.after /\ st.after[k].isComplete)

----------------------------------------------------------------------------
(* The growth scenario of C3: three consecutive live feeds of slot s,      *)
(* starting at feed i, each a record with one text block of the same       *)
(* message, of lengths 5, 12 and 9, the key having no state before them.   *)
IsTextFragment(f, id, n) ==
    /\ ~f.isHistory
    /\ Len(f.steps) = 1
    /\ f.steps[1].event.type = "text"
    /\ f.steps[1].event.messageId = id
    /\ Len(f.steps[1].event.content) = n
    /\ Len(extractEvent(parseRecord(f.line))) = 1

GrowthScenario(s, i) ==
    /\ i + 2 <= Len(feeds[s])
    /\ \E id \in {"m1"} :
          /\ IsTextFragment(feeds[s][i], id, 5)
          /\ IsTextFragment(feeds[s][i + 1], id, 12)
          /\ IsTextFragment(feeds[s][i + 2], id, 9)
    /\ KeyOf(feeds[s][i].steps[1].event) \notin DOMAIN feeds[s][i].before

----------------------------------------------------------------------------
(* Two consecutive live feeds i, i+1 of slot s with the same line, the     *)
(* line being a record of a text message.                                  *)
HasText(evs) == \E k \in 1..Len(evs) : evs[k].type = "text"

HasId(evs) == \A k \in 1..Len(evs) : evs[k].messageId \notin {JsNull, JsUndefined, ""}

SameLineTwice(s, i) ==
    /\ i + 1 <= Len(feeds[s])
    /\ ~feeds[s][i].isHistory /\ ~feeds[s][i + 1].isHistory
    /\ feeds[s][i].line = feeds[s][i + 1].line
    /\ HasText(extractEvent(parseRecord(feeds[s][i].line)))

(* C4 as stated: feeding the same live line of a text message twice in a   *)
(* row emits at most one update in total, the second feed emits nothing    *)
(* and leaves the MergeState as the first feed left it. A text message     *)
(* without a message id is not merged, so its second feed is emitted       *)
(* again.                                                                  *)
C4_IdempotentAsStated ==
    \A s \in DOMAIN feeds : \A i \in FeedIndex(s) :
        SameLineTwice(s, i)
        => /\ UpdateCount(feeds[s][i].out \o feeds[s][i + 1].out) <= 1
           /\ feeds[s][i + 1].out = <<>>
           /\ feeds[s][i + 1].after = feeds[s][i].after

(* C4 amended: feeding the same live line of a text message that has a     *)
(* messageId twice in a row emits at most one update in total; the second  *)
(* feed emits nothing and leaves the MergeState exactly as the first feed  *)
(* left it.                                                                *)
C4_Idempotent ==
    \A s \in DOMAIN feeds : \A i \in FeedIndex(s) :
        (SameLineTwice(s, i) /\ HasId(extractEvent(parseRecord(feeds[s][i].line))))
        => /\ UpdateCount(feeds[s][i].out \o feeds[s][i + 1].out) <= 1
           /\ feeds[s][i + 1].out = <<>>
           /\ feeds[s][i + 1].after = feeds[s][i].after

\* the same line was fed twice and its first feed emitted an update
C4_Witness ==
    \E s \in DOMAIN feeds : \E i \in FeedIndex(s) :
        /\ SameLineTwice(s, i)
        /\ HasId(extractEvent(parseRecord(feeds[s][i].line)))
        /\ UpdateCount(feeds[s][i].out) = 1

----------------------------------------------------------------------------
(* C5: during historical replay every emitted 'event' notification has     *)
(* isHistory = true and none has isUpdate = true.                          *)
HistoricalOnly(n) ==
    n.name = "event"
    => /\ "isHistory" \in DOMAIN n.payload /\ n.payload.isHistory = TRUE
       /\ n.payload.isUpdate = FALSE

C5_ReplayEmitsNoUpdate ==
    /\ \A s \in DOMAIN feeds : \A i \in FeedIndex(s) :
          feeds[s][i].isHistory
          => \A k \in 1..Len(feeds[s][i].out) : HistoricalOnly(feeds[s][i].out[k])
    /\ \A s \in DOMAIN emitted :
          (lastOp.name = "start" \/ (lastOp.name = "timer" /\ lastOp.sess = s))
          => \A k \in 1..Len(emitted[s]) : HistoricalOnly(emitted[s][k])

\* a replay has fed a fragment that grew or completed a stored state
C5_Witness ==
    \E s \in DOMAIN feeds : \E i \in FeedIndex(s) : \E j \in StepIndex(s, i) :
        LET st == feeds[s][i].steps[j]
        IN  /\ feeds[s][i].isHistory
            /\ Streams(st.event)
            /\ KeyOf(st.event) \in DOMAIN st.before
            /\ st.after # st.before

----------------------------------------------------------------------------
----------------------------------------------------------------------------
(* C7: an event without messageId, or of a kind other than text, thinking  *)
(* or tool-use, is emitted immediately and unconditionally with the slot   *)
(* index, the historical flag and isUpdate = false, and the MergeState     *)
(* table is unchanged. Every such event a line yields is handled: the      *)
(* j-th event of the line is the j-th iteration of the call.               *)
C7_UnmergedEmittedUnconditionally ==
    \A s \in DOMAIN feeds : \A i \in FeedIndex(s) :
        LET f == feeds[s][i]
            evs == extractEvent(parseRecord(f.line))
        IN  \A j \in 1..Len(evs) :
                ~Streams(evs[j])
                => /\ j <= Len(f.steps)
                   /\ f.steps[j].event = evs[j]
                   /\ f.steps[j].after = f.steps[j].before
                   /\ Len(f.steps[j].out) = 1
                   /\ IsPlain(f.steps[j].out[1], evs[j], s, f.isHistory)
                   /\ \E k \in 1..Len(f.out) : f.out[k] = f.steps[j].out[1]

\* an event with a message id but of kind complete was fed while the table held state
C7_Witness ==
    \E s \in DOMAIN feeds : \E i \in FeedIndex(s) : \E j \in StepIndex(s, i) :
        LET st == feeds[s][i].steps[j]
        IN  /\ st.event.type = "complete"
            /\ st.event.messageId = "m1"
            /\ DOMAIN st.before # {}

----------------------------------------------------------------------------
(* C8: a duplicate or stale fragment (its key has state, it is neither a   *)
(* strictly longer text fragment nor complete while the stored state is    *)
(* incomplete) causes no emission and leaves the stored content,           *)
(* completion flag and usage of the key (indeed the whole table)           *)
(* unchanged.                                                              *)
C8_StaleFragmentIgnored ==
    \A s \in DOMAIN feeds : \A i \in FeedIndex(s) : \A j \in StepIndex(s, i) :
        LET st == feeds[s][i].steps[j]
            key == KeyOf(st.event)
        IN  (/\ Streams(st.event)
             /\ key \in DOMAIN st.before
             /\ ~RuleA(st.event, st.before[key])
             /\ ~RuleB(st.event, st.before[key]))
            => /\ st.out = <<>>
               /\ st.after = st.before
               /\ st.after[key].content = st.before[key].content
               /\ st.after[key].isComplete = st.before[key].isComplete
               /\ st.after[key].usage = st.before[key].usage

\* a shorter text fragment arrived live after a longer one
C8_Witness ==
    \E s \in DOMAIN feeds : \E i \in FeedIndex(s) : \E j \in StepIndex(s, i) :
        LET st == feeds[s][i].steps[j]
        IN  /\ ~feeds[s][i].isHistory
            /\ Streams(st.event)
            /\ st.event.type = "text"
            /\ KeyOf(st.event) \in DOMAIN st.before
            /\ Len(st.event.content) < Len(st.before[KeyOf(st.event)].content)
            /\ ~RuleB(st.event, st.before[KeyOf(st.event)])

----------------------------------------------------------------------------
(* Steps of the tail of slot s: a 'change' notification was handled while  *)
(* the watched file had the given relation to the cursor.                  *)
ChangeStep(s) == lastOp'.name = "change" /\ lastOp'.sess = s

TailSize(s) == Len(files[watchers[s].watcher].content)

(* C9: on a change notification where the size of the file is larger than  *)
(* the cursor, exactly the bytes [cursor, newSize) are read and fed as live *)
(* lines, and the cursor becomes newSize; the cursor moves in no other way  *)
(* while the file stays open, so successive reads are contiguous and do not *)
(* overlap.                                                                 *)
C9_ReadsExactlyNewBytes ==
    [][\A s \in DOMAIN watchers :
          /\ (/\ ChangeStep(s)
              /\ watchers[s].watcher \in DOMAIN files
              /\ TailSize(s) > watchers[s].fileSize)
             => /\ lastOp'.read.done
                /\ lastOp'.read.from = watchers[s].fileSize
                /\ lastOp'.read.to = TailSize(s)
                /\ lastOp'.read.bytes =
                       SubSeq(files[watchers[s].watcher].content,
                              watchers[s].fileSize + 1, TailSize(s))
                /\ watchers'[s].fileSize = TailSize(s)
                /\ Len(feeds'[s]) = Len(feeds[s]) + Len(NonBlankLines(lastOp'.read.bytes))
                /\ \A k \in 1..Len(NonBlankLines(lastOp'.read.bytes)) :
                       /\ feeds'[s][Len(feeds[s]) + k].line = NonBlankLines(lastOp'.read.bytes)[k]
                       /\ ~feeds'[s][Len(feeds[s]) + k].isHistory
          /\ (s \in DOMAIN watchers' /\ watchers'[s].fileSize # watchers[s].fileSize)
             => \/ ChangeStep(s) /\ lastOp'.read.done
                \/ lastOp'.name = "timer" /\ lastOp'.sess = s
                   /\ watchers'[s].currentFile # watchers[s].currentFile
      ]_vars

\* a second read has continued where the first one ended
C9_Witness ==
    /\ lastOp.name = "change"
    /\ lastOp.read.done
    /\ lastOp.read.from > 0
    /\ lastOp.read.to > lastOp.read.from
    /\ \E s \in DOMAIN feeds :
          /\ lastOp.sess = s
          /\ Len(feeds[s]) >= 2
          /\ ~feeds[s][Len(feeds[s]) - 1].isHistory

(* C10: a change notification for the open file whose size is not larger   *)
(* than the cursor does nothing: no bytes are read, no event is emitted,   *)
(* the cursor and the MergeState table are unchanged.                      *)
C10_NoGrowthNoEffect ==
    [][\A s \in DOMAIN watchers :
          (/\ ChangeStep(s)
           /\ watchers[s].watcher \in DOMAIN files
           /\ TailSize(s) <= watchers[s].fileSize)
          => /\ ~lastOp'.read.done
             /\ lastOp'.read.bytes = <<>>
             /\ emitted'[s] = <<>>
             /\ feeds'[s] = feeds[s]
             /\ watchers'[s] = watchers[s]
      ]_vars

\* a change notification found the file shorter than the cursor
C10_Witness ==
    /\ lastOp.name = "change"
    /\ lastOp.size >= 0
    /\ lastOp.size < lastOp.cursor
    /\ \E s \in DOMAIN watchers :
          /\ lastOp.sess = s
          /\ watchers[s].fileSize = lastOp.cursor
          /\ DOMAIN watchers[s].messageStates # {}

----------------------------------------------------------------------------
(* Opening a file *)

\* the handler that ran last was a selection re-check of slot s that opened a file
JustOpened(s) ==
    /\ lastOp.name \in {"start", "timer", "add"}
    /\ s \in DOMAIN watchers
    /\ emitted[s] # <<>>
    /\ emitted[s][1].name = "file-change"

\* the last n elements of a sequence, by position
LastOf(xs, n) ==
    [i \in 1..(IF Len(xs) < n THEN Len(xs) ELSE n) |->
        xs[Len(xs) - (IF Len(xs) < n THEN Len(xs) ELSE n) + i]]

FedLines(s) == [i \in 1..Len(feeds[s]) |-> feeds[s][i].line]

(* C11 as stated: after a slot opened a readable file, the lines fed are     *)
(* the last 50 non-blank lines of the file in file order, each fed as       *)
(* history, and the cursor is the byte length of the file, so that every    *)
(* byte below the cursor belongs to the content that was replayed or        *)
(* skipped.  An append that lands between the read of the content and the   *)
(* read of the size is below the cursor and was neither.                    *)
C11_ReplayLast50ThenCursorAtEnd ==
    \A s \in DOMAIN watchers :
        (JustOpened(s) /\ CanRead(files, watchers[s].currentFile))
        => /\ watchers[s].fileSize = Len(files[watchers[s].currentFile].content)
           /\ FedLines(s) =
                  LastOf(NonBlankLines(SubSeq(files[watchers[s].currentFile].content,
                                              1, watchers[s].fileSize)), 50)
           /\ \A i \in FeedIndex(s) : feeds[s][i].isHistory

----------------------------------------------------------------------------
(* Order of live notifications *)

\* the concatenation of a sequence of sequences
RECURSIVE Flatten(_)
Flatten(xss) == IF xss = <<>> THEN <<>> ELSE Head(xss) \o Flatten(Tail(xss))

\* the handler that ran last was a change notification of slot s that read bytes
JustRead(s) == lastOp.name = "change" /\ lastOp.sess = s /\ lastOp.read.done

\* the _processLine calls the last read of slot s made, one per line read
ReadFeeds(s) ==
    SubSeq(feeds[s], Len(feeds[s]) - Len(NonBlankLines(lastOp.read.bytes)) + 1,
           Len(feeds[s]))

\* the content blocks of the assistant record on a line, that yield an event
EventBlocks(line) ==
    IF /\ IsJson(Trim(line))
       /\ Get(Trim(line)[1].rec, "type") = "assistant"
       /\ Has(Trim(line)[1].rec, "message")
       /\ Has(Trim(line)[1].rec.message, "content")
       /\ Trim(line)[1].rec.message.content.t = "array"
    THEN SelectSeq(Trim(line)[1].rec.message.content.v,
                   LAMBDA b : b.type \in {"thinking", "text", "tool_use"})
    ELSE <<>>

(* C12: the notifications a slot emits for newly read bytes are those of    *)
(* the first line read, then those of the second line, and so on in file   *)
(* order; within one record the events are handled in content block order. *)
C12_LiveInFileOrder ==
    \A s \in DOMAIN watchers :
        JustRead(s)
        => /\ Len(feeds[s]) >= Len(NonBlankLines(lastOp.read.bytes))
           /\ \A k \in 1..Len(ReadFeeds(s)) :
                 /\ ReadFeeds(s)[k].line = NonBlankLines(lastOp.read.bytes)[k]
                 /\ ~ReadFeeds(s)[k].isHistory
                 /\ ReadFeeds(s)[k].out =
                        Flatten([j \in 1..Len(ReadFeeds(s)[k].steps) |->
                                    ReadFeeds(s)[k].steps[j].out])
                 /\ EventBlocks(ReadFeeds(s)[k].line) # <<>>
                    => \A j \in 1..Len(ReadFeeds(s)[k].steps) :
                          /\ j <= Len(EventBlocks(ReadFeeds(s)[k].line))
                          /\ ReadFeeds(s)[k].steps[j].event.type =
                                 EventBlocks(ReadFeeds(s)[k].line)[j].type
           /\ emitted[s] = Flatten([k \in 1..Len(ReadFeeds(s)) |-> ReadFeeds(s)[k].out])

\* one read took two different lines, the first of them a record of several
\* content blocks, and both lines produced notifications
C12_Witness ==
    \E s \in DOMAIN watchers :
        /\ JustRead(s)
        /\ Len(ReadFeeds(s)) = 2
        /\ ReadFeeds(s)[1].line # ReadFeeds(s)[2].line
        /\ Len(ReadFeeds(s)[1].out) >= 2
        /\ Len(ReadFeeds(s)[2].out) >= 1
        /\ emitted[s] = ReadFeeds(s)[1].out \o ReadFeeds(s)[2].out

----------------------------------------------------------------------------
(* File selection *)

\* the session logs of the directories ds that can be listed and stat-ed
Candidates(fsys, ds) ==
    {p \in DOMAIN fsys :
        /\ CanStat(fsys, p)
        /\ \E i \in 1..Len(ds) : \E j \in 1..Len(FileNames) :
              ds[i] \in ExistingDirs /\ p = PathJoin(ds[i], FileNames[j])}

\* the candidate with exactly n candidates modified later, if there is one
Ranked(fsys, ds, n) ==
    IF \E p \in Candidates(fsys, ds) :
          Cardinality({q \in Candidates(fsys, ds) : fsys[q].mtime > fsys[p].mtime}) = n
    THEN CHOOSE p \in Candidates(fsys, ds) :
          Cardinality({q \in Candidates(fsys, ds) : fsys[q].mtime > fsys[p].mtime}) = n
    ELSE NoPath

\* the step is a selection re-check of slot s
RecheckStep(s) == lastOp'.name \in {"timer", "add"} /\ lastOp'.sess = s

(* C13: when a re-check of a slot finds that the selected file differs from *)
(* the open one, the slot has no tail watch on the old file afterwards,    *)
(* none of its former MergeState entries survive, its current file is the  *)
(* selected one, and it emitted 'file-change' first and replayed the new   *)
(* file, or, when nothing is selected, emitted exactly 'no-file'.          *)
C13_SwitchOnDifferentSelection ==
    [][\A s \in DOMAIN watchers :
          (RecheckStep(s) /\ Ranked(files, dirs, s) # watchers[s].currentFile)
          => /\ watchers'[s].currentFile = Ranked(files, dirs, s)
             /\ watchers'[s].watcher = Ranked(files, dirs, s)
             /\ IF Ranked(files, dirs, s) = NoPath
                THEN /\ watchers'[s].messageStates = <<>>
                     /\ emitted'[s] = <<Notification("no-file", [sessionIndex |-> s])>>
                ELSE /\ emitted'[s] # <<>>
                     /\ emitted'[s][1] =
                            Notification("file-change",
                                         [file |-> Ranked(files, dirs, s), sessionIndex |-> s])
                     /\ \A i \in 1..Len(feeds'[s]) : feeds'[s][i].isHistory
                     /\ IF feeds'[s] = <<>> THEN watchers'[s].messageStates = <<>>
                        ELSE /\ feeds'[s][1].before = <<>>
                             /\ watchers'[s].messageStates
                                    = feeds'[s][Len(feeds'[s])].after]_vars

\* a slot that had read a log of text fragments switched to an empty log
C13_Witness ==
    \E s \in DOMAIN watchers :
        /\ lastOp.name \in {"timer", "add"} /\ lastOp.sess = s
        /\ lastOp.cursor > 0
        /\ emitted[s] # <<>> /\ emitted[s][1].name = "file-change"
        /\ watchers[s].messageStates = <<>>

(* C14: for every rank n the File Selector returns the session log that has *)
(* exactly n session logs of the watched directories modified after it,    *)
(* and no file when there are fewer than n + 1 session logs.                *)
C14_RankedByModificationTime ==
    \A n \in 0..2 :
        /\ getBestFile(NewWatcher(dirs, n), files) = Ranked(files, dirs, n)
        /\ Cardinality(Candidates(files, dirs)) < n + 1
           => getBestFile(NewWatcher(dirs, n), files) = NoPath

\* two session logs: rank 0 is the later one, rank 1 the earlier, rank 2 none
C14_Witness ==
    \E a, b \in DOMAIN files :
        /\ Candidates(files, dirs) = {a, b}
        /\ files[a].mtime < files[b].mtime
        /\ getBestFile(NewWatcher(dirs, 0), files) = b
        /\ getBestFile(NewWatcher(dirs, 1), files) = a
        /\ getBestFile(NewWatcher(dirs, 2), files) = NoPath

\* the directories of ds that can be listed
Listable(ds) == SelectSeq(ds, LAMBDA d : d \in ExistingDirs)

\* the entries of the file system that can be stat-ed
Statable(fsys) == [p \in {q \in DOMAIN fsys : CanStat(fsys, q)} |-> fsys[p]]

(* C16: directories that cannot be listed and entries that cannot be stat-ed *)
(* contribute nothing and end nothing: the File Selector returns what it    *)
(* returns when only the listable directories are configured and only the   *)
(* stat-able entries exist.                                                 *)
C16_UnreadableContributesNothing ==
    \A n \in 0..2 :
        getBestFile(NewWatcher(dirs, n), files)
            = getBestFile(NewWatcher(Listable(dirs), n), Statable(files))

\* a missing directory is configured before the others, the first existing one
\* holds a dangling link, and a later log is still selected
C16_Witness ==
    /\ dirs[1] \notin ExistingDirs
    /\ \E p \in DOMAIN files : ~CanStat(files, p) /\ p = PathJoin(dirs[2], FileNames[1])
    /\ getBestFile(NewWatcher(dirs, 0), files) = PathJoin(dirs[3], FileNames[1])

----------------------------------------------------------------------------
(* Eventual selection *)

\* slot s is started and stop() has not cancelled its timer
Polling(s) == s \in DOMAIN watchers /\ "timer" \notin closed[s]

\* the current file of slot s is the one ranked for it, or none when none is ranked
InSync(s) == s \in DOMAIN watchers /\ watchers[s].currentFile = Ranked(files, dirs, s)

(* C15: whenever the file ranked for a started slot differs from its current *)
(* file, the slot eventually has the ranked file of the directory contents  *)
(* of that later moment as its current file (none when none is ranked),     *)
(* unless it is stopped; and once the directory contents stay unchanged,   *)
(* every slot that is not stopped keeps the ranked file from some point on. *)
C15_EventuallySelected ==
    \A s \in 0..1 :
        /\ (Polling(s) /\ ~InSync(s)) ~> (~Polling(s) \/ InSync(s))
        /\ <>[](DOMAIN watchers # {} => (~Polling(s) \/ InSync(s)))

\* the timer of a slot made it switch, and the slot is in sync
C15_Witness ==
    \E s \in DOMAIN watchers :
        /\ lastOp.name = "timer" /\ lastOp.sess = s
        /\ emitted[s] # <<>>
        /\ InSync(s)

----------------------------------------------------------------------------
(* Read failures *)

\* the handler that ran last was a change notification of slot s
JustNotified(s) == lastOp.name = "change" /\ lastOp.sess = s

(* C17 as stated: a read that failed is retried, so once the current file   *)
(* of a slot is readable and a change notification has been handled, the   *)
(* cursor is at the end of the file and every non-blank line of the file   *)
(* has been processed.  A file that cannot be read when it is opened still *)
(* gives its size, so the cursor moves past content that is never read.    *)
C17_FailedReadRetried ==
    \A s \in DOMAIN watchers :
        (JustNotified(s) /\ CanRead(files, watchers[s].currentFile))
        => /\ watchers[s].fileSize = Len(files[watchers[s].currentFile].content)
           /\ FedLines(s) = NonBlankLines(files[watchers[s].currentFile].content)

----------------------------------------------------------------------------
(* Serialization of the two triggers of a slot *)

\* the step is a change notification of slot s that read bytes
ReadStep(s) == lastOp'.name = "change" /\ lastOp'.sess = s /\ lastOp'.read.done

\* the _processLine calls the step added for slot s
NewFeeds(s) == SubSeq(feeds'[s], Len(feeds[s]) + 1, Len(feeds'[s]))

(* C18: every handler of a slot is one step that starts from the current    *)
(* file, cursor and MergeState table the previous handler left: a read is  *)
(* made on the slot's current file, from its cursor, with its table, and   *)
(* leaves the current file alone; after every step the tail watch of a     *)
(* slot, if any, is on its current file, so no change notification can     *)
(* reach a file that a re-check has replaced.                              *)
C18_TriggersSerialized ==
    [][\A s \in DOMAIN watchers' :
          /\ watchers'[s].watcher \in {NoPath, watchers'[s].currentFile}
          /\ (s \in DOMAIN watchers /\ ReadStep(s))
             => /\ lastOp'.path = watchers[s].currentFile
                /\ lastOp'.read.from = watchers[s].fileSize
                /\ watchers'[s].currentFile = watchers[s].currentFile
                /\ watchers'[s].fileSize = lastOp'.read.to
                /\ NewFeeds(s) # <<>>
                   => /\ NewFeeds(s)[1].before = watchers[s].messageStates
                      /\ NewFeeds(s)[Len(NewFeeds(s))].after = watchers'[s].messageStates
          /\ (s \in DOMAIN watchers /\ RecheckStep(s)
                /\ watchers'[s].currentFile # watchers[s].currentFile)
             => /\ watchers'[s].watcher # watchers[s].watcher \/ watchers[s].watcher = NoPath
                /\ watchers'[s].currentFile # NoPath
                   => watchers'[s].fileSize <= Len(files'[watchers'[s].currentFile].content)]_vars

\* a slot read new bytes from its current file, from its cursor, while another
\* session log with content exists that the other slot has open
C18_Witness ==
    \E s, t \in DOMAIN watchers :
        /\ JustRead(s)
        /\ lastOp.path = watchers[s].currentFile
        /\ lastOp.read.to = watchers[s].fileSize
        /\ t # s
        /\ watchers[t].currentFile \notin {NoPath, lastOp.path}
        /\ watchers[t].watcher = watchers[t].currentFile
        /\ watchers[t].fileSize > 0

----------------------------------------------------------------------------
(* Slot isolation *)

(* C19: a step of slot i, whether a selection re-check with its replay, an  *)
(* incremental read with its merge processing, or stop(), leaves the       *)
(* watcher of every other slot unchanged, current file, cursor and         *)
(* MergeState table included, and every notification a slot emits carries  *)
(* its own sessionIndex.                                                   *)
C19_SlotIsolation ==
    [][/\ \A i \in DOMAIN watchers :
             lastOp'.sess = i
             => \A j \in DOMAIN watchers \ {i} :
                   /\ watchers'[j] = watchers[j]
                   /\ emitted'[j] = emitted[j]
                   /\ feeds'[j] = feeds[j]
       /\ \A i \in DOMAIN emitted' :
             \A k \in 1..Len(emitted'[i]) : emitted'[i][k].payload.sessionIndex = i]_vars

\* slot 1 read a fragment from its file and emitted an event while slot 0 holds
\* another file and a table of its own
C19_Witness ==
    /\ DOMAIN watchers = {0, 1}
    /\ JustRead(1)
    /\ emitted[1] # <<>>
    /\ watchers[0].currentFile \notin {NoPath, watchers[1].currentFile}
    /\ watchers[0].messageStates # <<>>
    /\ watchers[1].messageStates # <<>>

----------------------------------------------------------------------------
(* Cancellation *)

\* stop() has been called on the watcher of slot s
Stopped(s) == s \in DOMAIN closed /\ "stopped" \in closed[s]

(* C20: once stop() has been called on a started slot, its timer is         *)
(* cancelled and its tail and directory watches are closed, no step is a   *)
(* re-check or a read of that slot, its watcher and the lines it processed *)
(* stay as they are, and it emits no notification.                         *)
C20_NothingAfterStop ==
    [][\A s \in DOMAIN watchers :
          Stopped(s)
          => /\ watchers[s].checkInterval => "timer" \in closed[s]
             /\ watchers[s].watcher # NoPath => "tail" \in closed[s]
             /\ watchers[s].dirWatcher => "dir" \in closed[s]
             /\ lastOp'.sess = s => lastOp'.name = "stop"
             /\ watchers'[s] = watchers[s]
             /\ feeds'[s] = feeds[s]
             /\ emitted[s] = <<>> /\ emitted'[s] = <<>>]_vars

\* a slot was stopped with its timer and both watches set, and the writer then
\* appended to its current file: the new bytes stay unread
C20_Witness ==
    \E s \in DOMAIN watchers :
        /\ Stopped(s)
        /\ {"timer", "tail", "dir"} \subseteq closed[s]
        /\ lastOp.name = "append"
        /\ lastOp.path = watchers[s].currentFile
        /\ Len(files[lastOp.path].content) > watchers[s].fileSize
        /\ \E t \in DOMAIN watchers : ~Stopped(t)

----------------------------------------------------------------------------
(* Attribution of events *)

(* C21 as stated: every 'event' notification a slot emits, updates          *)
(* included, carries the index of the slot and a boolean isHistory.  An    *)
(* update is built from the stored state, which has no isHistory property. *)
C21_EventsCarrySlotAndHistoryFlag ==
    \A s \in DOMAIN emitted :
        \A k \in 1..Len(emitted[s]) :
            emitted[s][k].name = "event"
            => /\ Get(emitted[s][k].payload, "sessionIndex") = s
               /\ Has(emitted[s][k].payload, "isHistory")
               /\ emitted[s][k].payload.isHistory \in BOOLEAN

----------------------------------------------------------------------------
(* Lifetime of the MergeState table *)

\* the step replaces the current file of slot s
SwitchStep(s) == watchers'[s].currentFile # watchers[s].currentFile

(* C22: the table of a slot loses keys only in a step that switches files;   *)
(* a step that keeps the current file, and every _processLine call, keeps    *)
(* every key.  When a file is opened, at start or by a switch, the replay    *)
(* begins on an empty table, and the table after the step holds only what    *)
(* the replay of the new file stored.                                        *)
C22_TableClearedOnlyOnSwitch ==
    [][/\ \A s \in DOMAIN watchers :
             /\ ~SwitchStep(s)
                => DOMAIN watchers[s].messageStates \subseteq DOMAIN watchers'[s].messageStates
             /\ SwitchStep(s)
                => IF feeds'[s] = <<>> THEN watchers'[s].messageStates = <<>>
                   ELSE /\ feeds'[s][1].before = <<>>
                        /\ watchers'[s].messageStates = feeds'[s][Len(feeds'[s])].after
       /\ \A s \in DOMAIN watchers' :
             /\ s \notin DOMAIN watchers
                => IF feeds'[s] = <<>> THEN watchers'[s].messageStates = <<>>
                   ELSE feeds'[s][1].before = <<>>
             /\ \A i \in 1..Len(feeds'[s]) :
                   /\ DOMAIN feeds'[s][i].before \subseteq DOMAIN feeds'[s][i].after
                   /\ i > 1 => feeds'[s][i].before = feeds'[s][i - 1].after]_vars

\* a slot whose table held a completed message lost its file: the table is empty
C22_Witness ==
    \E s \in DOMAIN watchers :
        /\ lastOp.name = "timer" /\ lastOp.sess = s
        /\ emitted[s] = <<Notification("no-file", [sessionIndex |-> s])>>
        /\ lastOp.cursor > SerLen + 1
        /\ watchers[s].messageStates = <<>>

----------------------------------------------------------------------------
(* The Record Parser and the Event Extractor, seen from one _processLine call *)

\* the _processLine call that has just run on slot s
LastFeed(s) == feeds[s][Len(feeds[s])]

Blanks(n) == [i \in 1..n |-> Blank]

\* line is the serialisation of r between runs of white space
Frames(line, r) ==
    \E a, b \in 0..Len(line) : line = Blanks(a) \o Ser(r) \o Blanks(b)

(* C23: for every line, parseRecord returns a value: the record whose JSON   *)
(* text the line holds between optional white space, and null for every      *)
(* other line (empty, white space only, cut short, two records).  A call     *)
(* whose line gives null leaves the merge table as it was and emits nothing. *)
C23_ParseRecordTotal ==
    lastOp.name = "line"
    => /\ \A r \in ParseRecords : Frames(LastFeed(0).line, r) => LastFeed(0).record = r
       /\ (\A r \in ParseRecords : ~Frames(LastFeed(0).line, r))
          => LastFeed(0).record = NullObj
       /\ LastFeed(0).record = NullObj
          => /\ LastFeed(0).events = <<>>
             /\ LastFeed(0).after = LastFeed(0).before
             /\ watchers[0].messageStates = LastFeed(0).before
             /\ emitted[0] = <<>>

\* a watcher with merge state was handed a line holding two records
C23_Witness ==
    /\ lastOp.name = "line"
    /\ LastFeed(0).line = Ser(RecUser) \o <<Blank>> \o Ser(RecText5)
    /\ LastFeed(0).record = NullObj
    /\ watchers[0].messageStates # <<>>

(* C24: a line whose record makes the extraction raise is handled as a line  *)
(* without event: extractEvent yields nothing, no loop iteration runs,       *)
(* nothing is emitted, and the merge table and the cursor of the slot are    *)
(* what they were before the call.                                           *)
C24_ExtractionErrorsSwallowed ==
    (lastOp.name = "line" /\ LastFeed(0).record \in MalformedRecords)
    => /\ LastFeed(0).events = <<>>
       /\ LastFeed(0).steps = <<>>
       /\ LastFeed(0).out = <<>>
       /\ emitted[0] = <<>>
       /\ LastFeed(0).after = LastFeed(0).before
       /\ watchers[0].messageStates = LastFeed(0).before
       /\ watchers[0].fileSize = lastOp.cursor

\* a live line whose message has a null block after a text block reached a
\* watcher with merge state
C24_Witness ==
    /\ lastOp.name = "line"
    /\ LastFeed(0).record = RecNullBlock
    /\ ~LastFeed(0).isHistory
    /\ LastFeed(0).before # <<>>

\* record is an assistant record whose message body is a list of blocks that
\* the extractor can read
AssistantWithBlocks(record) ==
    /\ Get(record, "type") = "assistant"
    /\ Has(record, "message") /\ record.message # NullObj
    /\ Has(record.message, "content") /\ record.message.content.t = "array"
    /\ record \notin MalformedRecords

\* the positions of the blocks of a recognised type
RecognizedAt(blocks) ==
    {i \in 1..Len(blocks) : blocks[i].type \in {"thinking", "text", "tool_use"}}

\* the k-th smallest element of the set of positions S
NthOf(S, k) == CHOOSE i \in S : Cardinality({j \in S : j <= i}) = k

\* the events that come from content blocks
BlockEvents(events) == SelectSeq(events, LAMBDA e : e.type # "complete")

\* event is what the message msg yields for its content block
EventOfBlock(event, block, msg, isComplete) ==
    /\ event.type = block.type
    /\ event.messageId = Get(msg, "id")
    /\ event.usage = (IF Has(msg, "usage") THEN msg.usage ELSE NullObj)
    /\ event.isComplete = isComplete
    /\ block.type = "text" => event.content = block.text
    /\ block.type = "tool_use" => event.toolName = block.name

\* evs holds one event per recognised block of blocks, in block order
OnePerRecognizedBlock(evs, blocks, msg) ==
    /\ Len(evs) = Cardinality(RecognizedAt(blocks))
    /\ \A k \in 1..Len(evs) :
          EventOfBlock(evs[k], blocks[NthOf(RecognizedAt(blocks), k)], msg, evs[1].isComplete)

(* C25: the events extracted from the content blocks of an assistant record  *)
(* are one per block of kind thinking, text or tool_use, in block order,     *)
(* blocks of other kinds being skipped; each carries the id and the usage of *)
(* the message, and all carry the same isComplete value.                     *)
C25_OneEventPerRecognizedBlock ==
    (lastOp.name = "line" /\ AssistantWithBlocks(LastFeed(0).record))
    => OnePerRecognizedBlock(BlockEvents(LastFeed(0).events),
                             LastFeed(0).record.message.content.v,
                             LastFeed(0).record.message)

\* a message with five blocks, two of them of an unknown kind, was extracted
C25_Witness ==
    /\ lastOp.name = "line"
    /\ LastFeed(0).record = RecMixed
    /\ Len(LastFeed(0).events) = 3
    /\ LastFeed(0).events[2].type = "tool_use"

\* the message has a stop reason: the property exists and is not null
StopReasonPresent(msg) == Has(msg, "stop_reason") /\ msg.stop_reason # JsNull

(* C26: every event extracted from the content blocks of an assistant record *)
(* has isComplete = TRUE exactly when the message has a stop reason; a       *)
(* message without the stop_reason property, or with stop_reason null,       *)
(* yields events with isComplete = FALSE.                                    *)
C26_CompleteIffStopReasonPresent ==
    (lastOp.name = "line" /\ AssistantWithBlocks(LastFeed(0).record))
    => \A k \in 1..Len(BlockEvents(LastFeed(0).events)) :
          BlockEvents(LastFeed(0).events)[k].isComplete
             = StopReasonPresent(LastFeed(0).record.message)

\* events is the single synthetic completion event of msg
SyntheticComplete(events, msg) ==
    /\ Len(events) = 1
    /\ events[1].type = "complete"
    /\ events[1].content = "[" \o msg.stop_reason \o "]"

(* C27: an assistant record yields the single synthetic complete event with  *)
(* content '[stop-reason]' exactly when its message has a stop reason and    *)
(* none of its blocks is of a recognised kind; in every other case no        *)
(* complete event is yielded, and a message with neither stop reason nor     *)
(* recognised block yields no event.                                         *)
C27_SyntheticCompleteIffStopReason ==
    (lastOp.name = "line" /\ AssistantWithBlocks(LastFeed(0).record))
    => IF /\ StopReasonPresent(LastFeed(0).record.message)
          /\ RecognizedAt(LastFeed(0).record.message.content.v) = {}
       THEN SyntheticComplete(LastFeed(0).events, LastFeed(0).record.message)
       ELSE /\ \A k \in 1..Len(LastFeed(0).events) :
                  LastFeed(0).events[k].type # "complete"
            /\ RecognizedAt(LastFeed(0).record.message.content.v) = {}
               => LastFeed(0).events = <<>>

\* the call on a queue-operation record yielded what the operation asks for:
\* for dequeue one session-start event with the given content, not complete,
\* emitted once and not stored; for any other operation nothing
QueueOperationYields(feed, content) ==
    IF Get(feed.record, "operation") = "dequeue"
    THEN /\ Len(feed.events) = 1
         /\ feed.events[1].type = "session-start"
         /\ feed.events[1].content = content
         /\ ~feed.events[1].isComplete
         /\ Len(feed.out) = 1
         /\ feed.out[1].payload.type = "session-start"
         /\ feed.after = feed.before
    ELSE feed.events = <<>> /\ feed.out = <<>>

(* C28 as stated: a queue-operation record with operation dequeue yields     *)
(* exactly one session-start event with empty content and isComplete =       *)
(* FALSE; any other operation yields no event.                               *)
C28_DequeueYieldsEmptySessionStart ==
    (lastOp.name = "line" /\ Get(LastFeed(0).record, "type") = "queue-operation")
    => QueueOperationYields(LastFeed(0), "")

(* C28, amended: a queue-operation record with operation dequeue yields      *)
(* exactly one session-start event with content 'Session started', a null    *)
(* messageId and isComplete = FALSE; any other operation, or none, yields    *)
(* no event.                                                                 *)
C28_DequeueYieldsSessionStart ==
    (lastOp.name = "line" /\ Get(LastFeed(0).record, "type") = "queue-operation")
    => /\ QueueOperationYields(LastFeed(0), "Session started")
       /\ LastFeed(0).events # <<>> => LastFeed(0).events[1].messageId = JsNull

\* a dequeue record reached a watcher with merge state and was emitted
C28_Witness ==
    /\ lastOp.name = "line"
    /\ LastFeed(0).record = RecDequeue
    /\ LastFeed(0).before # <<>>
    /\ Len(emitted[0]) = 1
    /\ emitted[0][1].payload.type = "session-start"

\* the user records of the pool that the extractor can read
ReadableUser(record) ==
    Get(record, "type") = "user" /\ record \notin MalformedRecords

\* the content the rules of the extractor give for each user record of the
\* pool, worked out by hand; JsNull where the body yields no content
ExpectedUserContent(record) ==
    CASE record = RecUser -> "fix it"
      [] record = RecUserId -> "go"
      [] record = RecUserLong -> S50 \o S50 \o S50 \o S50
      [] record = RecUserBlocks ->
            "hello [result: ok] [result: out] [tool result] [tool result] [image]"
      [] record = RecUserLongBlocks ->
            S50 \o S50 \o S50 \o S50 \o " " \o S50 \o S10 \o S10 \o S10 \o S10 \o "012345678"
      [] record = RecUserLongResult -> "[result: " \o S50 \o S10 \o "]"
      [] OTHER -> JsNull

\* the length limit of the content of a user event: 200 for a plain string
\* body, 300 for a structured one
UserContentLimit(record) ==
    IF record.message.content.t = "string" THEN 200 ELSE 300

\* events is one user event, complete, within the length limit of the body
OneUserEvent(events, record) ==
    /\ Len(events) = 1
    /\ events[1].type = "user"
    /\ events[1].isComplete
    /\ Len(events[1].content) <= UserContentLimit(record)

(* C29 as stated: every user record yields exactly one event of kind user,   *)
(* complete, with content within the limit of its body.                      *)
C29_EveryUserRecordYieldsEvent ==
    (lastOp.name = "line" /\ ReadableUser(LastFeed(0).record))
    => OneUserEvent(LastFeed(0).events, LastFeed(0).record)

(* C29, amended: a user record whose body yields non-empty content yields    *)
(* exactly one event of kind user with isComplete = TRUE and that content:   *)
(* the plain string cut to 200 characters, or the extracts of the blocks     *)
(* joined by spaces and cut to 300 characters; a user record without         *)
(* message, without body, or whose body yields empty content yields no       *)
(* event.                                                                    *)
C29_UserEventIffContent ==
    (lastOp.name = "line" /\ ReadableUser(LastFeed(0).record))
    => IF ExpectedUserContent(LastFeed(0).record) = JsNull
       THEN LastFeed(0).events = <<>> /\ LastFeed(0).out = <<>>
       ELSE /\ OneUserEvent(LastFeed(0).events, LastFeed(0).record)
            /\ LastFeed(0).events[1].content = ExpectedUserContent(LastFeed(0).record)
            /\ LastFeed(0).events[1].messageId
                  = OrElse(Get(LastFeed(0).record.message, "id"), JsNull)
            /\ Len(LastFeed(0).out) = 1

\* a structured body whose joined extracts exceed the overall limit gave one
\* user event of exactly 300 characters
C29_Witness ==
    /\ lastOp.name = "line"
    /\ LastFeed(0).record = RecUserLongBlocks
    /\ Len(LastFeed(0).events) = 1
    /\ Len(LastFeed(0).events[1].content) = 300

----------------------------------------------------------------------------
(* The events of one line *)

(* C30: every event extracted from a line gets its own iteration of the      *)
(* merge algorithm, in order, whatever the earlier events of the line met:   *)
(* an event that follows an update or a suppression is still stored and      *)
(* emitted according to the merge rules.                                     *)
C30_EveryEventOfLineProcessed ==
    lastOp.name = "line"
    => /\ Len(LastFeed(0).steps) = Len(LastFeed(0).events)
       /\ \A k \in 1..Len(LastFeed(0).steps) :
             LastFeed(0).steps[k].event = LastFeed(0).events[k]

----------------------------------------------------------------------------
(* Appends around an open *)

\* the non-blank lines of the current file of slot s that lie at or above its cursor
LinesAboveCursor(s) ==
    NonBlankLines(SubSeq(files[watchers[s].currentFile].content,
                         watchers[s].fileSize + 1,
                         Len(files[watchers[s].currentFile].content)))

\* the lines replayed by the open of slot s followed by the lines still to be read
Accounted(s) == FedLines(s) \o LinesAboveCursor(s)

(* C31: when a slot has opened a file, every line of the file is either     *)
(* part of the content read for the replay or lies at or above the cursor,  *)
(* where the next change notification reads it: the lines replayed followed *)
(* by the lines above the cursor are the last lines of the file, and all of *)
(* them unless the replay limit cut the replay.  An append that lands       *)
(* between the read of the content and the read of the size is in neither   *)
(* part.                                                                    *)
C31_NoLineLostAroundOpen ==
    \A s \in DOMAIN watchers :
        (JustOpened(s) /\ CanRead(files, watchers[s].currentFile))
        => /\ Accounted(s)
                = LastOf(NonBlankLines(files[watchers[s].currentFile].content),
                         Len(Accounted(s)))
           /\ Len(FedLines(s)) < ReplayLimit
              => Len(Accounted(s))
                    = Len(NonBlankLines(files[watchers[s].currentFile].content))

----------------------------------------------------------------------------
(* Lines that become visible in two steps *)

\* position n of the current file of slot s is the start of a line
AtLineStart(s, n) ==
    IF n = 0 THEN TRUE ELSE files[watchers[s].currentFile].content[n] = NL

(* C32: an incremental read that starts at the start of a line hands only   *)
(* whole lines to the parser and ends at the start of a line: every call it *)
(* makes is on a line that gives its record, and the cursor it leaves is    *)
(* just after a newline, so a line whose bytes become visible in two steps  *)
(* is processed once, whole, by the read that sees its newline.             *)
C32_SplitLineProcessedOnce ==
    [][\A s \in DOMAIN watchers :
          (ReadStep(s) /\ AtLineStart(s, watchers[s].fileSize))
          => /\ AtLineStart(s, watchers'[s].fileSize)
             /\ \A i \in 1..Len(NewFeeds(s)) : NewFeeds(s)[i].record # NullObj]_vars

----------------------------------------------------------------------------
(* Notifications of a file that is no longer open *)

\* n is an 'event' notification that is not part of a replay
LiveEvent(n) == n.name = "event" /\ (n.payload.isUpdate \/ ~n.payload.isHistory)

\* the notifications emitted by the _processLine calls in fs, in order
OutOf(fs) == Flatten([i \in 1..Len(fs) |-> fs[i].out])

(* C33: every live event of a slot comes from bytes of the slot's current   *)
(* file, read at the cursor of that file: the file a change notification    *)
(* is handled for is the current file of the slot, the bytes read are the   *)
(* bytes of that file that start at the slot's cursor, the events emitted   *)
(* are the ones of the lines in those bytes, and a notification that reads  *)
(* nothing emits nothing and leaves the slot as it was; no other step of a  *)
(* slot emits a live event.                                                 *)
C33_LiveEventsFromCurrentFile ==
    [][\A s \in DOMAIN watchers :
          /\ ChangeStep(s)
             => /\ lastOp'.path = watchers[s].currentFile
                /\ lastOp'.path # NoPath
                /\ IF lastOp'.read.done
                   THEN /\ CanRead(files, watchers[s].currentFile)
                        /\ lastOp'.read.bytes
                              = SubSeq(files[watchers[s].currentFile].content,
                                       watchers[s].fileSize + 1,
                                       watchers[s].fileSize + Len(lastOp'.read.bytes))
                        /\ [i \in 1..Len(NewFeeds(s)) |-> NewFeeds(s)[i].line]
                              = NonBlankLines(lastOp'.read.bytes)
                        /\ emitted'[s] = OutOf(NewFeeds(s))
                   ELSE /\ emitted'[s] = <<>>
                        /\ watchers'[s] = watchers[s]
                        /\ feeds'[s] = feeds[s]
          /\ (/\ emitted'[s] # emitted[s]
              /\ \E i \in 1..Len(emitted'[s]) : LiveEvent(emitted'[s][i]))
             => ChangeStep(s)]_vars

\* a slot has read new bytes of its current file and emitted a live event,
\* while an older session log with content exists
C33_Witness ==
    \E s \in DOMAIN watchers :
        /\ JustRead(s)
        /\ lastOp.path = watchers[s].currentFile
        /\ \E i \in 1..Len(emitted[s]) : LiveEvent(emitted[s][i])
        /\ \E q \in DOMAIN files :
              /\ q # lastOp.path
              /\ CanRead(files, q)
              /\ files[q].content # <<>>
              /\ files[q].mtime < files[lastOp.path].mtime

----------------------------------------------------------------------------
(* Incremental reads that fail *)

\* the step is a change notification of slot s whose stat, open or read raises
FailedReadStep(s) == ChangeStep(s) /\ ~CanRead(files, lastOp'.path)

(* C34: a change notification whose stat, open or read raises leaves the    *)
(* cursor and the merge table of the slot as they were and emits nothing;   *)
(* until the next read only a switch of file moves the cursor or the table; *)
(* and a notification handled while the file is readable and longer than    *)
(* the cursor reads from the cursor to the end of the file, so the bytes    *)
(* appended before, during and after the failure are read by it.            *)
C34_FailedReadKeepsCursor ==
    [][\A s \in DOMAIN watchers :
          /\ FailedReadStep(s)
             => /\ ~lastOp'.read.done
                /\ watchers'[s] = watchers[s]
                /\ emitted'[s] = <<>>
                /\ feeds'[s] = feeds[s]
          /\ (\/ watchers'[s].fileSize # watchers[s].fileSize
              \/ watchers'[s].messageStates # watchers[s].messageStates)
             => ReadStep(s) \/ SwitchStep(s)
          /\ (/\ ChangeStep(s)
              /\ CanRead(files, lastOp'.path)
              /\ Len(files[lastOp'.path].content) > watchers[s].fileSize)
             => /\ lastOp'.read.done
                /\ lastOp'.read.from = watchers[s].fileSize
                /\ lastOp'.read.to = Len(files[lastOp'.path].content)
                /\ [i \in 1..Len(NewFeeds(s)) |-> NewFeeds(s)[i].line]
                      = NonBlankLines(SubSeq(files[lastOp'.path].content,
                                             watchers[s].fileSize + 1,
                                             Len(files[lastOp'.path].content)))]_vars

\* a change notification was handled while the file could not be opened and
\* held a line above the cursor: the cursor is still below that line
C34_Witness ==
    \E s \in DOMAIN watchers :
        /\ JustNotified(s)
        /\ ~lastOp.read.done
        /\ lastOp.path = watchers[s].currentFile
        /\ CanStat(files, lastOp.path) /\ ~CanRead(files, lastOp.path)
        /\ watchers[s].fileSize < Len(files[lastOp.path].content)
        /\ LinesAboveCursor(s) # <<>>

----------------------------------------------------------------------------
(* Re-checks that select the file already open *)

\* the step is a handler run of slot s: the start of all slots, or a re-check of s
SelectionStep(s) == lastOp'.name = "start" \/ RecheckStep(s)

(* C35: a re-check of a slot whose selection is the file the slot has,      *)
(* no file included, emits nothing and leaves the watcher (current file,    *)
(* tail watch, cursor, merge table) as it was; a slot started with nothing  *)
(* to select emits nothing and has no file, no tail watch, cursor 0 and an  *)
(* empty table; and 'no-file' is emitted only by a step that takes the slot *)
(* from a file to none.                                                     *)
C35_UnchangedSelectionIsNoOp ==
    [][/\ \A s \in DOMAIN watchers :
             (RecheckStep(s) /\ Ranked(files, dirs, s) = watchers[s].currentFile)
             => /\ emitted'[s] = <<>>
                /\ watchers'[s] = watchers[s]
                /\ feeds'[s] = feeds[s]
       /\ \A s \in DOMAIN watchers' :
             (lastOp'.name = "start" /\ Ranked(files, dirs, s) = NoPath)
             => /\ emitted'[s] = <<>>
                /\ watchers'[s].currentFile = NoPath
                /\ watchers'[s].watcher = NoPath
                /\ watchers'[s].fileSize = 0
                /\ watchers'[s].messageStates = <<>>
       /\ \A s \in DOMAIN watchers' :
             (/\ SelectionStep(s)
              /\ \E i \in 1..Len(emitted'[s]) : emitted'[s][i].name = "no-file")
             => /\ s \in DOMAIN watchers
                /\ watchers[s].currentFile # NoPath
                /\ watchers'[s].currentFile = NoPath]_vars

\* the timer of a slot that has no file found nothing to select: nothing was
\* emitted, and the slot still has no file
C35_Witness ==
    \E s \in DOMAIN watchers :
        /\ lastOp.name = "timer" /\ lastOp.sess = s
        /\ watchers[s].currentFile = NoPath
        /\ Ranked(files, dirs, s) = NoPath
        /\ emitted[s] = <<>>
        /\ \E t \in DOMAIN watchers : t # s /\ watchers[t].currentFile # NoPath

----------------------------------------------------------------------------
(* Order of the notifications of one opened file *)

\* the step opens a file for slot s: at the start, or by a re-check that switches
OpenStep(s) ==
    /\ SelectionStep(s)
    /\ watchers'[s].currentFile # NoPath
    /\ s \in DOMAIN watchers => watchers'[s].currentFile # watchers[s].currentFile

(* C36: a step that opens path P for a slot emits 'file-change' for P       *)
(* first and once, followed only by the history events of the lines         *)
(* replayed, which are lines of P; a change notification emits live events  *)
(* only; 'file-change' is emitted by no other step; and among the           *)
(* _processLine calls made since the open every replayed line comes before  *)
(* every live line.  So the events of a file come after its 'file-change',  *)
(* history before live, and nothing of the file open before follows it.     *)
C36_FileChangeThenHistoryThenLive ==
    [][\A s \in DOMAIN watchers' :
          /\ OpenStep(s)
             => /\ emitted'[s] # <<>>
                /\ emitted'[s][1]
                      = Notification("file-change",
                                     [file |-> watchers'[s].currentFile, sessionIndex |-> s])
                /\ \A i \in 2..Len(emitted'[s]) :
                      emitted'[s][i].name = "event" /\ ~LiveEvent(emitted'[s][i])
                /\ SubSeq(emitted'[s], 2, Len(emitted'[s])) = OutOf(feeds'[s])
                /\ \A i \in 1..Len(feeds'[s]) :
                      /\ feeds'[s][i].isHistory
                      /\ CanRead(files', watchers'[s].currentFile)
                      /\ \E k \in 1..Len(NonBlankLines(files'[watchers'[s].currentFile].content)) :
                            NonBlankLines(files'[watchers'[s].currentFile].content)[k]
                               = feeds'[s][i].line
          /\ (s \in DOMAIN watchers /\ ChangeStep(s))
             => \A i \in 1..Len(emitted'[s]) : LiveEvent(emitted'[s][i])
          /\ (/\ SelectionStep(s) \/ (s \in DOMAIN watchers /\ ChangeStep(s))
              /\ \E i \in 1..Len(emitted'[s]) : emitted'[s][i].name = "file-change")
             => OpenStep(s)
          /\ \A i, j \in 1..Len(feeds'[s]) :
                (i < j /\ feeds'[s][j].isHistory) => feeds'[s][i].isHistory]_vars

\* a slot opened a log with content and replayed it with events, then read a new
\* line of it and emitted live events
C36_Witness ==
    \E s \in DOMAIN watchers :
        /\ JustRead(s)
        /\ emitted[s] # <<>>
        /\ feeds[s][1].isHistory
        /\ feeds[s][1].out # <<>>
        /\ ~feeds[s][Len(feeds[s])].isHistory

----------------------------------------------------------------------------
(* Content of thinking and tool-use keys *)

\* the iterations of the merge algorithm made so far for slot s, over all calls
AllSteps(s) == Flatten([i \in 1..Len(feeds[s]) |-> feeds[s][i].steps])

\* an iteration on a fragment of a thinking block or a tool call that has a key
FixedKind(st) == IsMergeable(st.event) /\ st.event.type \in {"thinking", "tool_use"}

(* C37: for a merge key of kind thinking or tool-use the stored content is  *)
(* the content of the first fragment: the iteration that meets the key for  *)
(* the first time stores the fragment's content, every later iteration for  *)
(* the key leaves the stored content and every field other than isComplete  *)
(* and usage as they were, and an update it emits carries the stored        *)
(* content.                                                                 *)
C37_FirstFragmentFixesContent ==
    \A s \in DOMAIN feeds :
        \A k \in 1..Len(AllSteps(s)) :
            FixedKind(AllSteps(s)[k])
            => LET st == AllSteps(s)[k]
                   key == KeyOf(st.event)
               IN  IF key \in DOMAIN st.before
                   THEN /\ Get(st.after[key], "content") = Get(st.before[key], "content")
                        /\ \A f \in (DOMAIN st.after[key] \cup DOMAIN st.before[key])
                                    \ {"isComplete", "usage"} :
                              /\ f \in DOMAIN st.after[key] /\ f \in DOMAIN st.before[key]
                              /\ st.after[key][f] = st.before[key][f]
                        /\ \A i \in 1..Len(st.out) :
                              /\ st.out[i].payload.isUpdate
                              /\ Get(st.out[i].payload, "content")
                                    = Get(st.before[key], "content")
                   ELSE Get(st.after[key], "content") = Get(st.event, "content")

\* a complete fragment with other content arrived, live, for a thinking or
\* tool-use key that was stored incomplete, and an update was emitted
C37_Witness ==
    /\ lastOp.name = "line"
    /\ \E k \in 1..Len(LastFeed(0).steps) :
          LET st == LastFeed(0).steps[k]
          IN  /\ FixedKind(st)
              /\ KeyOf(st.event) \in DOMAIN st.before
              /\ Get(st.event, "content") # Get(st.before[KeyOf(st.event)], "content")
              /\ st.out # <<>>

----------------------------------------------------------------------------
(* Monotonicity while a file stays open *)

\* the length of the content stored in entry e of a merge table
StoredLength(e) == Len(OrElse(Get(e, "content"), ""))

(* C38: in a step that leaves the current file of a slot alone, the cursor  *)
(* of the slot does not decrease, whatever happened to the size of the      *)
(* file, and every text key of the merge table is kept with stored content  *)
(* at least as long as before.                                              *)
C38_CursorAndTextNeverShrink ==
    [][\A s \in DOMAIN watchers :
          ~SwitchStep(s)
          => /\ watchers'[s].fileSize >= watchers[s].fileSize
             /\ \A key \in DOMAIN watchers[s].messageStates :
                   watchers[s].messageStates[key].type = "text"
                   => /\ key \in DOMAIN watchers'[s].messageStates
                      /\ StoredLength(watchers'[s].messageStates[key])
                            >= StoredLength(watchers[s].messageStates[key])]_vars

\* a change notification was handled for a file that had become shorter than
\* the cursor: nothing was read and the cursor is still above the size
C38_Witness ==
    \E s \in DOMAIN watchers :
        /\ JustNotified(s)
        /\ ~lastOp.read.done
        /\ lastOp.path = watchers[s].currentFile
        /\ CanRead(files, lastOp.path)
        /\ Len(files[lastOp.path].content) < watchers[s].fileSize
        /\ \E key \in DOMAIN watchers[s].messageStates :
              watchers[s].messageStates[key].type = "text"

----------------------------------------------------------------------------
(* Slots of different rank *)

\* the path _getBestFile gives the slot of rank n in the present file system
Selected(n) == getBestFile(NewWatcher(dirs, n), files)

(* C39: in one state of the directories two slots of different rank never   *)
(* select the same path: the scans of two ranks give different paths unless *)
(* they give none, and right after the start of all slots no two slots have *)
(* the same current file.  A directory listed twice contributes each of its *)
(* files twice, so ranks 0 and 1 are the same path.                         *)
C39_DistinctRanksDistinctFiles ==
    /\ \A i, j \in Sessions :
          (i # j /\ Selected(i) # NoPath) => Selected(i) # Selected(j)
    /\ lastOp.name = "start"
       => \A i, j \in DOMAIN watchers :
             (i # j /\ watchers[i].currentFile # NoPath)
             => watchers[i].currentFile # watchers[j].currentFile

====
